---- MODULE Spec2Model ----
(***************************************************************************)
(* Model of the wallet core of giwa-react-native-wallet: the rate limiter, *)
(* the security audit logger, the wallet hook and provider, and the wallet *)
(* key manager that the hook drives.                                       *)
(***************************************************************************)
EXTENDS Integers, Sequences, FiniteSets, TLC

VARIABLES
    now,        \* Date.now(), in abstract time units
    attempts,   \* RateLimiter.attempts : key -> list of timestamps
    cooldowns,  \* RateLimiter.cooldowns : key -> cooldown end (0 = no entry)
    config,     \* the RateLimitConfig the call site passes
    rlLast,     \* the last checkLimit call and what the caller saw or caught
    rlRef,      \* per key, the Open/Cooldown machine the callers have observed
    rlRead,     \* the projection read by the latest step, if it was a read, and its result
    callers,    \* call sites that invoke checkLimit at the same instant
    logEntries, \* SecurityAuditLogger.logEntries
    auditConfig,\* SecurityAuditLogger.config
    consoleLast,\* the last line written by console.log
    sinkCalls,  \* the entries config.customLogHandler has been invoked with
    logLast,    \* the log calls made so far, and the last one's argument and outcome
    recentLogs, \* the getRecentLogs call made by the latest step, and its result
    store,      \* the platform secure store: storage key -> value (0 = absent)
    osCall,     \* the last call the storage adapter made on expo-secure-store
    secureStorage, \* the ExpoSecureStorage instance, if one has been constructed
    biometric,  \* the ExpoBiometricAuth instance: its calls and OS challenges
    mgrAccount, \* the wallet manager's active account (0 = none)
    walletManager, \* GiwaProvider: a wallet manager has been constructed
    isInitialized, \* GiwaProvider: isInitialized
    providerError, \* GiwaProvider: error
    environment,   \* GiwaProvider: the detected environment (null before detection)
    adapters,      \* GiwaProvider: the environment whose adapters were handed out
    wallet,     \* GiwaProvider: the wallet state (0 = null)
    account,    \* GiwaClient: the account set on the client (0 = none)
    isLoading,  \* useGiwaWallet: isLoading
    hookError,  \* useGiwaWallet: error
    call,       \* the export call in flight and the steps it has taken
    lastCall,   \* the last call that returned to the UI: argument and outcome
    issued,     \* per mnemonic handed out by create / export: the address of
                \* its wallet, and whether that wallet has been deleted since
    effect,     \* GiwaProvider: the run of the initialize effect, its timer and isLoading
    pending,    \* useGiwaWallet: the operations started and not yet settled
    balance,    \* useBalance: the target address, the fetches in flight, the balance shown
    singleton,  \* securityAudit.ts: SecurityAuditLogger.instance and the exported securityAudit
    clipboard   \* ExpoClipboard: the clipboard content and the auto-clear timers

rlVars == <<now, attempts, cooldowns, config, rlLast, rlRef, rlRead, callers>>

auditVars == <<logEntries, auditConfig, consoleLast, sinkCalls, logLast, recentLogs>>

adapterVars == <<osCall, secureStorage, biometric>>

uiVars == <<effect, pending, balance, singleton, clipboard>>

walletVars == <<store, adapterVars, uiVars, mgrAccount, walletManager, isInitialized, providerError,
                environment, adapters,
                wallet, account, isLoading, hookError, call, lastCall, issued>>

vars == <<now, attempts, cooldowns, config, rlLast, rlRef, rlRead, callers,
          logEntries, auditConfig, consoleLast, sinkCalls, logLast, recentLogs,
          store, osCall, secureStorage, biometric,
          mgrAccount, walletManager, isInitialized, providerError,
          environment, adapters,
          wallet, account, isLoading, hookError, call, lastCall, issued,
          effect, pending, balance, singleton, clipboard>>

(***************************************************************************)
(* Bounds of the model.                                                    *)
(***************************************************************************)
MaxTime == 5
MaxTokens == 2
MaxWindows == 1

\* log calls made on one logger
MaxLogs == 3

\* half seconds that pass on the millisecond clock
MaxHalfSeconds == 6

\* runs of the provider's initialize effect (the mount and the re-runs)
MaxRuns == 2

\* operations of the wallet hook in flight at once
MaxPending == 2

\* balance fetches in flight at once
MaxFetches == 3

\* log calls made through the audit logger's singleton and its exports
MaxAuditCalls == 4

\* copyWithAutoClear calls made on one clipboard adapter
MaxTimers == 3

\* authenticate calls made on one biometric adapter
MaxAuth == 4

\* call sites that invoke checkLimit at the same instant
NumCallers == 4

Null == "null"

(***************************************************************************)
(* Rate limiter                                                            *)
(***************************************************************************)
Keys == {"export", "wallet_op"}

\* RateLimitConfig values the rate-limiter specification is run with; they
\* include cooldowns shorter than, equal to and longer than the window.
Configs ==
    { [maxAttempts |-> 1, windowMs |-> 2, cooldownMs |-> 1],
      [maxAttempts |-> 1, windowMs |-> 1, cooldownMs |-> 3],
      [maxAttempts |-> 2, windowMs |-> 2, cooldownMs |-> 2],
      [maxAttempts |-> 2, windowMs |-> 3, cooldownMs |-> 1],
      [maxAttempts |-> 3, windowMs |-> 2, cooldownMs |-> 3] }

\* Configurations in milliseconds whose cooldowns last more than a second.
SecondsConfigs ==
    { [maxAttempts |-> 1, windowMs |-> 500, cooldownMs |-> 2500],
      [maxAttempts |-> 1, windowMs |-> 1000, cooldownMs |-> 1000],
      [maxAttempts |-> 2, windowMs |-> 1000, cooldownMs |-> 1500] }

\* The configuration of the export operations (milliseconds).
EXPORT_RATE_LIMIT ==
    [maxAttempts |-> 3, windowMs |-> 60 * 1000, cooldownMs |-> 5 * 60 * 1000]

\* new GiwaSecurityError(message, cause): the code is always SECURITY_ERROR
GiwaSecurityError(message, cause) ==
    [name |-> "GiwaSecurityError", code |-> "SECURITY_ERROR",
     message |-> message, cause |-> cause]

NoError == [name |-> Null, code |-> Null, message |-> Null, cause |-> Null]

CeilDiv_Floor(a, b) == a \div b

\* Math.ceil(a / b) for a >= 0, b > 0
CeilDiv(a, b) == (a + b - 1) \div b

SelectRecent_Inclusive(ts, t, windowMs) ==
    SelectSeq(ts, LAMBDA x : t - x <= windowMs)

\* Array.prototype.filter
RECURSIVE SelectRecent(_, _, _)
SelectRecent(ts, t, windowMs) ==
    IF ts = <<>> THEN <<>>
    ELSE LET rest == SelectRecent(Tail(ts), t, windowMs)
         IN  IF t - Head(ts) < windowMs THEN <<Head(ts)>> \o rest ELSE rest

\* `cooldownEnd && now < cooldownEnd`
InCooldown(cd, key, t) == cd[key] # 0 /\ t < cd[key]

\* recentAttempts of checkLimit
RecentAttempts(att, key, t, cfg) == SelectRecent(att[key], t, cfg.windowMs)

\* checkLimit without `this.attempts.delete(key)` on entering the cooldown.
CheckLimit_KeepsAttempts(att, cd, key, cfg, t) ==
    IF InCooldown(cd, key, t)
    THEN [ok |-> FALSE, attempts |-> att, cooldowns |-> cd,
          seconds |-> CeilDiv(cd[key] - t, 1000),
          error |-> GiwaSecurityError("Rate limit exceeded", "RATE_LIMIT_EXCEEDED")]
    ELSE LET recent == RecentAttempts(att, key, t, cfg)
         IN  IF Len(recent) >= cfg.maxAttempts
             THEN [ok |-> FALSE,
                   attempts |-> att,
                   cooldowns |-> [cd EXCEPT ![key] = t + cfg.cooldownMs],
                   seconds |-> CeilDiv(cfg.cooldownMs, 1000),
                   error |-> GiwaSecurityError("Rate limit exceeded",
                                               "RATE_LIMIT_EXCEEDED")]
             ELSE [ok |-> TRUE,
                   attempts |-> [att EXCEPT ![key] = Append(recent, t)],
                   cooldowns |-> cd,
                   seconds |-> 0,
                   error |-> NoError]

\* The outcome of checkLimit(key, cfg) at time t on the maps att, cd:
\* ok = the promise resolves; otherwise it rejects with code/cooldownEnd.
CheckLimit_ExtendsCooldown(att, cd, key, cfg, t) ==
    IF InCooldown(cd, key, t)
    THEN [ok |-> FALSE, attempts |-> att,
          cooldowns |-> [cd EXCEPT ![key] = t + cfg.cooldownMs],
          seconds |-> CeilDiv(cfg.cooldownMs, 1000),
          error |-> GiwaSecurityError("Rate limit exceeded", "RATE_LIMIT_EXCEEDED")]
    ELSE CheckLimit_KeepsAttempts(att, cd, key, cfg, t)

\* checkLimit that compares with > where the source has >=.
CheckLimit_OffByOne(att, cd, key, cfg, t) ==
    IF InCooldown(cd, key, t)
    THEN [ok |-> FALSE, attempts |-> att, cooldowns |-> cd,
          seconds |-> CeilDiv(cd[key] - t, 1000),
          error |-> GiwaSecurityError("Rate limit exceeded", "RATE_LIMIT_EXCEEDED")]
    ELSE LET recent == RecentAttempts(att, key, t, cfg)
         IN  IF Len(recent) > cfg.maxAttempts
             THEN [ok |-> FALSE,
                   attempts |-> [att EXCEPT ![key] = <<>>],
                   cooldowns |-> [cd EXCEPT ![key] = t + cfg.cooldownMs],
                   seconds |-> CeilDiv(cfg.cooldownMs, 1000),
                   error |-> GiwaSecurityError("Rate limit exceeded",
                                               "RATE_LIMIT_EXCEEDED")]
             ELSE [ok |-> TRUE,
                   attempts |-> [att EXCEPT ![key] = Append(recent, t)],
                   cooldowns |-> cd,
                   seconds |-> 0,
                   error |-> NoError]

\* seconds = remainingSeconds / cooldownSeconds of the rejection, error =
\* the GiwaSecurityError it throws.
CheckLimit(att, cd, key, cfg, t) ==
    IF InCooldown(cd, key, t)
    THEN [ok |-> FALSE, attempts |-> att, cooldowns |-> cd,
          seconds |-> CeilDiv(cd[key] - t, 1000),
          error |-> GiwaSecurityError("Rate limit exceeded", "RATE_LIMIT_EXCEEDED")]
    ELSE LET recent == RecentAttempts(att, key, t, cfg)
         IN  IF Len(recent) >= cfg.maxAttempts
             THEN [ok |-> FALSE,
                   attempts |-> [att EXCEPT ![key] = <<>>],
                   cooldowns |-> [cd EXCEPT ![key] = t + cfg.cooldownMs],
                   seconds |-> CeilDiv(cfg.cooldownMs, 1000),
                   error |-> GiwaSecurityError("Rate limit exceeded",
                                               "RATE_LIMIT_EXCEEDED")]
             ELSE [ok |-> TRUE,
                   attempts |-> [att EXCEPT ![key] = Append(recent, t)],
                   cooldowns |-> cd,
                   seconds |-> 0,
                   error |-> NoError]

GetRemainingAttempts_IgnoresCooldown(att, cd, key, cfg, t) ==
    LET left == cfg.maxAttempts - Len(RecentAttempts(att, key, t, cfg))
    IN  IF left > 0 THEN left ELSE 0

\* getRemainingAttempts(key, cfg) at time t
GetRemainingAttempts(att, cd, key, cfg, t) ==
    IF InCooldown(cd, key, t) THEN 0
    ELSE LET left == cfg.maxAttempts - Len(RecentAttempts(att, key, t, cfg))
         IN  IF left > 0 THEN left ELSE 0

GetCooldownEnd_DropsActive(cd, key, t) ==
    [value |-> IF InCooldown(cd, key, t) THEN cd[key] ELSE 0,
     cooldowns |-> [cd EXCEPT ![key] = 0]]

\* getCooldownEnd(key) at time t: the value it returns (0 = null) and the
\* cooldowns map it leaves
GetCooldownEnd(cd, key, t) ==
    IF InCooldown(cd, key, t) THEN [value |-> cd[key], cooldowns |-> cd]
    ELSE [value |-> 0, cooldowns |-> [cd EXCEPT ![key] = 0]]

NoRead == [fn |-> Null, key |-> Null, value |-> 0]

Reset_KeepsCooldown(att, cd, key) ==
    [attempts |-> [att EXCEPT ![key] = <<>>], cooldowns |-> cd]

Reset_EveryKey(att, cd, key) ==
    [attempts |-> [k \in DOMAIN att |-> <<>>], cooldowns |-> [k \in DOMAIN cd |-> 0]]

\* reset(key): the two maps after both deletes
Reset(att, cd, key) ==
    [attempts |-> [att EXCEPT ![key] = <<>>], cooldowns |-> [cd EXCEPT ![key] = 0]]

\* resetAll(): the two maps after both clears
ResetAll(att, cd) ==
    [attempts |-> [k \in DOMAIN att |-> <<>>], cooldowns |-> [k \in DOMAIN cd |-> 0]]

NoRef == [deadline |-> 0, acc |-> <<>>, accepted |-> <<>>]

\* The call sites that may invoke checkLimit on one key at the same instant.
Callers == 1..NumCallers

\* pc: "idle" (has not asked), "ready" (its call is due to run) or "done";
\* seen: the attempts of the key when the call became due; ok: its outcome.
NoCallers == [c \in Callers |-> [pc |-> "idle", seen |-> <<>>, ok |-> FALSE]]

AttemptsReadBy_AtArrival(att, key, seen) == [att EXCEPT ![key] = seen]

\* The attempts map the body of checkLimit reads and writes when it runs:
\* the body has no await, so it runs from its first line to its last on the
\* map as it is at that moment.
AttemptsReadBy(att, key, seen) == att

(***************************************************************************)
(* What a caller of checkLimit has observed for a key: the deadline of the *)
(* cooldown it was last told about and the times of the calls accepted     *)
(* since then that are still inside the window.                            *)
(***************************************************************************)
RefPhase(ref, t) ==
    IF ref.deadline # 0 /\ t < ref.deadline THEN "cooldown"
    ELSE IF ref.deadline # 0 /\ ref.acc = <<>> THEN "expired"
    ELSE "open"

\* The n latest entries of s.
Latest(s, n) == IF Len(s) > n THEN SubSeq(s, Len(s) - n + 1, Len(s)) ELSE s

\* The accepted calls that lie less than windowMs before t.
StillWithin(accepted, t, cfg) ==
    SelectSeq(accepted, LAMBDA x : t - x < cfg.windowMs)

\* The times of the latest accepted calls that lie less than windowMs before
\* the call accepted at t, that call included, whether or not the limiter
\* still stores them; at most maxAttempts + 1 of them are kept.
AcceptedWithin(accepted, t, cfg) ==
    Latest(Append(StillWithin(accepted, t, cfg), t), cfg.maxAttempts + 1)

RefStep(ref, t, cfg, ok) ==
    LET recent == SelectRecent(ref.acc, t, cfg.windowMs)
    IN  IF ok
        THEN [ref EXCEPT !.acc = Latest(Append(recent, t), cfg.maxAttempts + 1),
                         !.accepted = AcceptedWithin(@, t, cfg)]
        ELSE IF ref.deadline # 0 /\ t < ref.deadline
             THEN ref
             ELSE [ref EXCEPT !.deadline = t + cfg.cooldownMs, !.acc = <<>>]

NoCall ==
    [key |-> Null, at |-> 0, ok |-> TRUE, phase |-> "open", seen |-> 0,
     seconds |-> 0, error |-> NoError]

RLInit ==
    /\ now = 0
    /\ attempts = [k \in Keys |-> <<>>]
    /\ cooldowns = [k \in Keys |-> 0]
    /\ config \in Configs
    /\ rlLast = NoCall
    /\ rlRef = [k \in Keys |-> NoRef]
    /\ rlRead = NoRead
    /\ callers = NoCallers

\* The rate limiter of a process that never calls it.
RLIdle ==
    /\ now = 0
    /\ attempts = [k \in Keys |-> <<>>]
    /\ cooldowns = [k \in Keys |-> 0]
    /\ config = EXPORT_RATE_LIMIT
    /\ rlLast = NoCall
    /\ rlRef = [k \in Keys |-> NoRef]
    /\ rlRead = NoRead
    /\ callers = NoCallers

\* Time passes between calls.
Tick ==
    /\ now < MaxTime
    /\ now' = now + 1
    /\ rlRead' = NoRead
    /\ rlRef' = [k \in Keys |->
                    [rlRef[k] EXCEPT !.accepted = StillWithin(@, now + 1, config)]]
    /\ UNCHANGED <<attempts, cooldowns, config, rlLast, callers>>
    /\ UNCHANGED auditVars
    /\ UNCHANGED walletVars

\* Half a second passes on a clock that counts milliseconds.
HalfSecond == 500

Elapse ==
    /\ now < MaxHalfSeconds * HalfSecond
    /\ now' = now + HalfSecond
    /\ rlRead' = NoRead
    /\ rlRef' = [k \in Keys |->
                    [rlRef[k] EXCEPT !.accepted = StillWithin(@, now + HalfSecond, config)]]
    /\ UNCHANGED <<attempts, cooldowns, config, rlLast, callers>>
    /\ UNCHANGED auditVars
    /\ UNCHANGED walletVars

\* A caller awaits checkLimit(key, config).
CheckLimitCall(key) ==
    LET r == CheckLimit(attempts, cooldowns, key, config, now)
    IN  /\ attempts' = r.attempts
        /\ cooldowns' = r.cooldowns
        /\ rlLast' = [key |-> key, at |-> now, ok |-> r.ok,
                      phase |-> RefPhase(rlRef[key], now),
                      seen |-> Len(SelectRecent(rlRef[key].acc, now, config.windowMs)),
                      seconds |-> r.seconds,
                      error |-> r.error]
        /\ rlRef' = [rlRef EXCEPT ![key] = RefStep(@, now, config, r.ok)]
        /\ rlRead' = NoRead
        /\ UNCHANGED <<now, config, callers>>
        /\ UNCHANGED auditVars
        /\ UNCHANGED walletVars

\* A call site's checkLimit(key, config) becomes due (Promise.all, two
\* screens, two hooks).
CallerArrives(c, key) ==
    /\ callers[c].pc = "idle"
    /\ callers' = [callers EXCEPT ![c] = [pc |-> "ready", seen |-> attempts[key],
                                          ok |-> FALSE]]
    /\ UNCHANGED <<now, attempts, cooldowns, config, rlLast, rlRef, rlRead>>
    /\ UNCHANGED auditVars
    /\ UNCHANGED walletVars

\* The body of a due checkLimit(key, config) runs.
CallerRuns(c, key) ==
    LET r == CheckLimit(AttemptsReadBy(attempts, key, callers[c].seen),
                        cooldowns, key, config, now)
    IN  /\ callers[c].pc = "ready"
        /\ attempts' = r.attempts
        /\ cooldowns' = r.cooldowns
        /\ callers' = [callers EXCEPT ![c] = [pc |-> "done", seen |-> <<>>,
                                              ok |-> r.ok]]
        /\ UNCHANGED <<now, config, rlLast, rlRef, rlRead>>
        /\ UNCHANGED auditVars
        /\ UNCHANGED walletVars

\* An administrator or a test invokes reset(key); the callers' record of
\* the key starts over.
ResetCall(key) ==
    LET r == Reset(attempts, cooldowns, key)
    IN  /\ attempts' = r.attempts
        /\ cooldowns' = r.cooldowns
        /\ rlRead' = [fn |-> "reset", key |-> key, value |-> 0]
        /\ rlRef' = [rlRef EXCEPT ![key] = NoRef]
        /\ UNCHANGED <<now, config, rlLast, callers>>
        /\ UNCHANGED auditVars
        /\ UNCHANGED walletVars

\* An administrator or a test invokes resetAll().
ResetAllCall ==
    LET r == ResetAll(attempts, cooldowns)
    IN  /\ attempts' = r.attempts
        /\ cooldowns' = r.cooldowns
        /\ rlRead' = [fn |-> "resetAll", key |-> Null, value |-> 0]
        /\ rlRef' = [k \in Keys |-> NoRef]
        /\ UNCHANGED <<now, config, rlLast, callers>>
        /\ UNCHANGED auditVars
        /\ UNCHANGED walletVars

\* The process stops and starts again: the module is evaluated anew and
\* globalRateLimiter is a new RateLimiter with empty maps.  The clock and
\* what the callers were told before live outside the process.
Restart ==
    /\ attempts' = [k \in Keys |-> <<>>]
    /\ cooldowns' = [k \in Keys |-> 0]
    /\ callers' = NoCallers
    /\ rlRead' = NoRead
    /\ UNCHANGED <<now, config, rlLast, rlRef>>
    /\ UNCHANGED auditVars
    /\ UNCHANGED walletVars

\* A caller invokes getRemainingAttempts(key, config).
GetRemainingAttemptsCall(key) ==
    /\ rlRead' = [fn |-> "getRemainingAttempts", key |-> key,
                  value |-> GetRemainingAttempts(attempts, cooldowns, key, config, now)]
    /\ UNCHANGED <<now, attempts, cooldowns, config, rlLast, rlRef, callers>>
    /\ UNCHANGED auditVars
    /\ UNCHANGED walletVars

\* A caller invokes getCooldownEnd(key).
GetCooldownEndCall(key) ==
    LET r == GetCooldownEnd(cooldowns, key, now)
    IN  /\ cooldowns' = r.cooldowns
        /\ rlRead' = [fn |-> "getCooldownEnd", key |-> key, value |-> r.value]
        /\ UNCHANGED <<now, attempts, config, rlLast, rlRef, callers>>
        /\ UNCHANGED auditVars
        /\ UNCHANGED walletVars

(***************************************************************************)
(* Security audit logger                                                   *)
(*                                                                         *)
(* A string is a sequence of pieces:                                       *)
(*   "K"   64 hexadecimal characters                                       *)
(*   "0x"  the two characters 0x                                           *)
(*   "S"   a run of whitespace                                             *)
(*   "W"   a short word with a non-hexadecimal character                   *)
(*   "P12" twelve such words separated by single spaces                    *)
(* and "[REDACTED]", "[REDACTED_KEY]", "[REDACTED_MNEMONIC]" are the       *)
(* markers the logger writes.  Pieces that are not whitespace and touch    *)
(* each other form one word.                                               *)
(***************************************************************************)
Pieces == {"K", "0x", "S", "W", "P12"}

Strings == UNION { [1..n -> Pieces] : n \in 0..MaxTokens }

\* A details value: a string, a number, null, or an object / array that
\* holds the string s.
ValueKinds == {"str", "num", "bool", "null", "obj", "arr"}

Str(s) == [t |-> "str", s |-> s, n |-> 0]

Num(n) == [t |-> "num", s |-> <<>>, n |-> n]

Bool(b) == [t |-> "bool", s |-> <<>>, n |-> IF b THEN 1 ELSE 0]

Values ==
    { Str(s) : s \in Strings }
        \cup { [t |-> k, s |-> <<p>>, n |-> 0] : k \in {"obj", "arr"}, p \in Pieces }
        \cup { Num(0), [t |-> "null", s |-> <<>>, n |-> 0] }

\* Key names, as sequences of camel-case parts.
DetailKeys ==
    { <<"note">>, <<"api", "Key">>, <<"private", "Key">>, <<"Mnemonic">> }

NoDetails == [defined |-> FALSE, map |-> <<>>]

DetailsInputs ==
    { [defined |-> TRUE, map |-> [k \in {key} |-> v]] :
          key \in DetailKeys, v \in Values }
        \cup { [defined |-> TRUE,
                map |-> (<<"note">> :> v1) @@ (<<"api", "Key">> :> v2)] :
                    v1 \in {Str(<<"K">>), Num(0)}, v2 \in {Str(<<"W">>), Num(0)} }
        \cup { NoDetails }

\* String.prototype.toLowerCase on one part of a key name
LowerPart(p) ==
    CASE p = "Key" -> "key"
      [] p = "Seed" -> "seed"
      [] p = "Mnemonic" -> "mnemonic"
      [] p = "Secret" -> "secret"
      [] p = "Password" -> "password"
      [] OTHER -> p

ToLowerCase(key) == [i \in 1..Len(key) |-> LowerPart(key[i])]

\* String.prototype.includes
Includes(hay, needle) ==
    \E i \in 0..(Len(hay) - Len(needle)) :
        \A j \in 1..Len(needle) : hay[i + j] = needle[j]

\* sensitiveKeys of sanitizeDetails, written as they are in the source
\* ('privateKey' keeps its capital K).
SensitiveKeys ==
    { <<"private", "Key">>, <<"mnemonic">>, <<"seed">>, <<"secret">>,
      <<"password">>, <<"key">> }

IsSensitiveKey(key) ==
    \E sk \in SensitiveKeys : Includes(ToLowerCase(key), sk)

\* String.prototype.trim
RECURSIVE TrimLeft(_)
TrimLeft(s) ==
    IF s # <<>> /\ Head(s) = "S" THEN TrimLeft(Tail(s)) ELSE s

RECURSIVE TrimRight(_)
TrimRight(s) ==
    IF s # <<>> /\ s[Len(s)] = "S" THEN TrimRight(SubSeq(s, 1, Len(s) - 1)) ELSE s

Trim(s) == TrimRight(TrimLeft(s))

\* /^(0x)?[a-fA-F0-9]{64}$/.test(value.trim())
LooksLikePrivateKey(s) == Trim(s) \in { <<"K">>, <<"0x", "K">> }

WordsIn(piece) ==
    CASE piece = "S" -> 0
      [] piece = "P12" -> 12
      [] OTHER -> 1

RECURSIVE SumWords(_)
SumWords(s) == IF s = <<>> THEN 0 ELSE WordsIn(Head(s)) + SumWords(Tail(s))

\* value.trim().split(/\s+/).length
SplitLength(s) ==
    LET t == Trim(s)
        glued == Cardinality({ i \in 1..(Len(t) - 1) : t[i] # "S" /\ t[i + 1] # "S" })
    IN  IF t = <<>> THEN 1 ELSE SumWords(t) - glued

LooksLikeMnemonic(s) == SplitLength(s) = 12 \/ SplitLength(s) = 24

SanitizeValue_PatternFirst(key, v) ==
    IF v.t = "str" /\ LooksLikePrivateKey(v.s) THEN Str(<<"[REDACTED_KEY]">>)
    ELSE IF v.t = "str" /\ LooksLikeMnemonic(v.s) THEN Str(<<"[REDACTED_MNEMONIC]">>)
    ELSE IF IsSensitiveKey(key) THEN Str(<<"[REDACTED]">>)
    ELSE v

\* one iteration of the loop of sanitizeDetails
SanitizeValue(key, v) ==
    IF IsSensitiveKey(key) THEN Str(<<"[REDACTED]">>)
    ELSE IF v.t = "str"
         THEN IF LooksLikePrivateKey(v.s) THEN Str(<<"[REDACTED_KEY]">>)
              ELSE IF LooksLikeMnemonic(v.s) THEN Str(<<"[REDACTED_MNEMONIC]">>)
              ELSE v
         ELSE v

SanitizeDetails(details) ==
    IF ~details.defined THEN details
    ELSE [defined |-> TRUE,
          map |-> [k \in DOMAIN details.map |-> SanitizeValue(k, details.map[k])]]

\* An address string is known by its length, its first six and its last
\* four characters; NoAddress is the missing argument.
NoAddress == [len |-> 0, first6 |-> 0, last4 |-> 0]

NoHint == [kind |-> "none", first6 |-> 0, last4 |-> 0]

MaskAddress(address) ==
    IF address.len < 12 THEN [kind |-> "[INVALID_ADDRESS]", first6 |-> 0, last4 |-> 0]
    ELSE [kind |-> "masked", first6 |-> address.first6, last4 |-> address.last4]

MakeEntry(type, details, walletAddress, t) ==
    [type |-> type,
     timestamp |-> t,
     details |-> SanitizeDetails(details),
     walletAddressHint |-> IF walletAddress.len # 0 THEN MaskAddress(walletAddress)
                           ELSE NoHint]

\* `this.config.maxLogEntries || 100`
Capacity(cfg) == IF cfg.maxLogEntries = 0 THEN 100 ELSE cfg.maxLogEntries

Log_DropsNewest(entries, cfg, type, details, walletAddress, t) ==
    IF Len(entries) >= Capacity(cfg) THEN entries
    ELSE Append(entries, MakeEntry(type, details, walletAddress, t))

\* logEntries after log(type, details, walletAddress) at time t
Log(entries, cfg, type, details, walletAddress, t) ==
    LET pushed == Append(entries, MakeEntry(type, details, walletAddress, t))
    IN  IF Len(pushed) > Capacity(cfg) THEN Tail(pushed) ELSE pushed

\* what console.log prints for that call, or nothing
ConsoleLine(cfg, type, details, walletAddress, t, before) ==
    IF cfg.enableConsoleLog THEN <<MakeEntry(type, details, walletAddress, t)>>
    ELSE before

SecurityEventTypes ==
    { "WALLET_CREATED", "WALLET_RECOVERED", "WALLET_IMPORTED", "WALLET_DELETED",
      "WALLET_CONNECTED", "WALLET_DISCONNECTED",
      "MNEMONIC_EXPORT_ATTEMPT", "MNEMONIC_EXPORT_SUCCESS", "MNEMONIC_EXPORT_FAILED",
      "PRIVATE_KEY_EXPORT_ATTEMPT", "PRIVATE_KEY_EXPORT_SUCCESS",
      "PRIVATE_KEY_EXPORT_FAILED", "TRANSACTION_SIGNED", "TRANSACTION_SENT",
      "BIOMETRIC_AUTH_ATTEMPT", "BIOMETRIC_AUTH_SUCCESS", "BIOMETRIC_AUTH_FAILED",
      "RATE_LIMIT_TRIGGERED", "SECURITY_VIOLATION" }

\* config.customLogHandler: absent, a handler that returns, or one that throws
LogHandlers == {"none", "returns", "throws"}

\* the arguments the custom handler has seen after log built `entry`
CustomLogHandler(calls, cfg, entry) ==
    IF cfg.customLogHandler # "none" THEN Append(calls, entry) ELSE calls

\* how the invocation of the handler ends
HandlerOutcome(cfg) ==
    IF cfg.customLogHandler = "throws" THEN "threw" ELSE "returned"

TryCatch_Rethrows(outcome) == outcome

\* try { ... } catch { /* silently fail */ }
TryCatch(outcome) == "returned"

\* how log(...) ends for its caller
LogOutcome(cfg) ==
    IF cfg.customLogHandler # "none" THEN TryCatch(HandlerOutcome(cfg))
    ELSE "returned"

\* Array.prototype.slice(start) on the log
Slice(entries, start) ==
    LET len == Len(entries)
        k == IF start < 0 THEN (IF len + start > 0 THEN len + start ELSE 0)
             ELSE (IF start < len THEN start ELSE len)
    IN  SubSeq(entries, k + 1, len)

\* getRecentLogs(count)
GetRecentLogs(entries, count) == Slice(entries, -count)

\* The counts getRecentLogs is called with; 10 is the default of a call
\* without argument.
RecentCounts == {0, 1, 2, 10}

NoLog == [n |-> 0, details |-> NoDetails, outcome |-> Null]

NoRecent == [called |-> FALSE, count |-> 0, value |-> <<>>]

\* The logger as constructed and not yet used.
AuditIdle ==
    /\ logEntries = <<>>
    /\ auditConfig = [maxLogEntries |-> 1, enableConsoleLog |-> FALSE,
                      customLogHandler |-> "none"]
    /\ consoleLast = <<>>
    /\ sinkCalls = <<>>
    /\ logLast = NoLog
    /\ recentLogs = NoRecent

AuditInit ==
    /\ logEntries = <<>>
    /\ auditConfig \in [maxLogEntries : {1}, enableConsoleLog : BOOLEAN,
                         customLogHandler : {"none"}]
    /\ consoleLast = <<>>
    /\ sinkCalls = <<>>
    /\ logLast = NoLog
    /\ recentLogs = NoRecent

\* The logger constructed with a capacity (0 is replaced by 100 at use) and
\* with or without a custom handler.
LoggerInit ==
    /\ logEntries = <<>>
    /\ auditConfig \in [maxLogEntries : {0, 1, 2}, enableConsoleLog : BOOLEAN,
                         customLogHandler : LogHandlers]
    /\ consoleLast = <<>>
    /\ sinkCalls = <<>>
    /\ logLast = NoLog
    /\ recentLogs = NoRecent

\* A caller invokes log(type, details).
LogCall(type, details) ==
    /\ logLast.n < MaxLogs
    /\ logEntries' = Log(logEntries, auditConfig, type, details, NoAddress, now)
    /\ consoleLast' = ConsoleLine(auditConfig, type, details, NoAddress, now, consoleLast)
    /\ sinkCalls' = CustomLogHandler(sinkCalls, auditConfig,
                                     MakeEntry(type, details, NoAddress, now))
    /\ logLast' = [n |-> logLast.n + 1, details |-> details,
                   outcome |-> LogOutcome(auditConfig)]
    /\ recentLogs' = NoRecent
    /\ UNCHANGED auditConfig
    /\ UNCHANGED rlVars
    /\ UNCHANGED walletVars

\* A caller invokes getRecentLogs(count).
GetRecentLogsCall(count) ==
    /\ recentLogs' = [called |-> TRUE, count |-> count,
                  value |-> GetRecentLogs(logEntries, count)]
    /\ UNCHANGED <<logEntries, auditConfig, consoleLast, sinkCalls, logLast>>
    /\ UNCHANGED rlVars
    /\ UNCHANGED walletVars

\* logExportAttempt: the entry type of an export attempt
ExportAttemptType_Swapped(exportType) ==
    IF exportType = "mnemonic" THEN "PRIVATE_KEY_EXPORT_SUCCESS"
    ELSE "MNEMONIC_EXPORT_SUCCESS"

ExportAttemptType(exportType) ==
    IF exportType = "mnemonic" THEN "MNEMONIC_EXPORT_ATTEMPT"
    ELSE "PRIVATE_KEY_EXPORT_ATTEMPT"

\* logEntries after logExportAttempt(exportType, {biometricRequested, remainingAttempts})
LogExportAttempt(entries, cfg, exportType, biometricRequested, remainingAttempts, t) ==
    Log(entries, cfg, ExportAttemptType(exportType),
        [defined |-> TRUE,
         map |-> (<<"biometric", "Requested">> :> Bool(biometricRequested))
                     @@ (<<"remaining", "Attempts">> :> Num(remainingAttempts))],
        NoAddress, t)

LogRateLimitTriggered_Silent(entries, cfg, operation, cooldownSeconds, t) == entries

\* logEntries after logRateLimitTriggered(operation, cooldownSeconds)
LogRateLimitTriggered(entries, cfg, operation, cooldownSeconds, t) ==
    Log(entries, cfg, "RATE_LIMIT_TRIGGERED",
        [defined |-> TRUE,
         map |-> (<<"operation">> :> Str(operation))
                     @@ (<<"cooldown", "Seconds">> :> Num(cooldownSeconds))],
        NoAddress, t)

\* logEntries after logSecurityViolation(reason)
LogSecurityViolation(entries, cfg, reason, t) ==
    Log(entries, cfg, "SECURITY_VIOLATION",
        [defined |-> TRUE, map |-> (<<"reason">> :> Str(reason))],
        NoAddress, t)

(***************************************************************************)
(* Secure storage adapter                                                  *)
(***************************************************************************)
STORAGE_KEYS ==
    [WALLET_DATA |-> "giwa_wallet_data",
     MNEMONIC |-> "giwa_mnemonic",
     PRIVATE_KEY |-> "giwa_private_key"]

StorageKeys ==
    { STORAGE_KEYS.WALLET_DATA, STORAGE_KEYS.MNEMONIC, STORAGE_KEYS.PRIVATE_KEY }

EmptyStore == [k \in StorageKeys |-> 0]

\* setItem: the platform store rejects (fault) or holds the value afterwards
SetItem(st, key, value, fault) ==
    IF fault THEN [ok |-> FALSE, store |-> st]
    ELSE [ok |-> TRUE, store |-> [st EXCEPT ![key] = value]]

GetItem_MissingIsFailure(st, key, fault) ==
    IF fault \/ st[key] = 0 THEN [ok |-> FALSE, value |-> 0]
    ELSE [ok |-> TRUE, value |-> st[key]]

\* getItem: the platform store rejects (fault), or answers the value, null
\* (0) when the key is absent
GetItem(st, key, fault) ==
    IF fault THEN [ok |-> FALSE, value |-> 0]
    ELSE [ok |-> TRUE, value |-> st[key]]

RemoveItem_MissingIsFailure(st, key, fault) ==
    IF fault \/ st[key] = 0 THEN [ok |-> FALSE, store |-> st]
    ELSE [ok |-> TRUE, store |-> [st EXCEPT ![key] = 0]]

\* removeItem: the platform store rejects (fault) or no longer holds the key
RemoveItem(st, key, fault) ==
    IF fault THEN [ok |-> FALSE, store |-> st]
    ELSE [ok |-> TRUE, store |-> [st EXCEPT ![key] = 0]]

\* SecureStorageOptions as a caller passes them: no options at all, or each
\* field true, false or left out.
NoOptions ==
    [given |-> FALSE, requireBiometric |-> "undefined",
     accessibleWhenUnlocked |-> "undefined"]

StorageOptions ==
    [given : {TRUE}, requireBiometric : {"true", "false", "undefined"},
     accessibleWhenUnlocked : {"true", "false", "undefined"}]
        \cup { NoOptions }

\* an empty SecureStoreOptions object
EmptyStoreOptions == [requireAuthentication |-> FALSE, keychainAccessible |-> Null]

GetStoreOptions_Plain(options) == EmptyStoreOptions

\* the SecureStoreOptions getItem builds from its options
GetStoreOptions(options) ==
    IF options.given /\ options.requireBiometric = "true"
    THEN [EmptyStoreOptions EXCEPT !.requireAuthentication = TRUE]
    ELSE EmptyStoreOptions

\* the SecureStoreOptions setItem builds from its options
SetStoreOptions(options) ==
    LET a == IF options.given /\ options.requireBiometric = "true"
             THEN [EmptyStoreOptions EXCEPT !.requireAuthentication = TRUE]
             ELSE EmptyStoreOptions
    IN  IF ~(options.given /\ options.accessibleWhenUnlocked = "false")
        THEN [a EXCEPT !.keychainAccessible = "WHEN_UNLOCKED_THIS_DEVICE_ONLY"]
        ELSE a

NoOsCall ==
    [fn |-> Null, key |-> Null, requested |-> NoOptions,
     storeOptions |-> EmptyStoreOptions, ok |-> TRUE, value |-> 0]

\* The vault backend of the process: expo-secure-store installed and usable,
\* not installed, or installed on a device where isAvailableAsync() is false.
Backends == {"present", "missing", "unprovisioned"}

\* No ExpoSecureStorage instance exists.
NotConstructed == [constructed |-> FALSE, backend |-> Null, SecureStore |-> Null]

\* new ExpoSecureStorage(prefix): stores the prefix, touches nothing else
NewExpoSecureStorage(backend) ==
    [constructed |-> TRUE, backend |-> backend, SecureStore |-> Null]

\* getSecureStore(): the require of expo-secure-store throws (ok = FALSE) or
\* the module is kept in this.SecureStore
GetSecureStore(ss) ==
    IF ss.SecureStore # Null THEN [ok |-> TRUE, ss |-> ss]
    ELSE IF ss.backend = "missing" THEN [ok |-> FALSE, ss |-> ss]
    ELSE [ok |-> TRUE, ss |-> [ss EXCEPT !.SecureStore = "expo-secure-store"]]

\* isAvailable()
IsAvailable(ss) ==
    LET g == GetSecureStore(ss)
    IN  [value |-> g.ok /\ ss.backend = "present", ss |-> g.ss]

\* Code of the application constructs the adapter in a process whose vault
\* backend is `backend`.
ConstructStorage(backend) ==
    /\ ~secureStorage.constructed
    /\ secureStorage' = NewExpoSecureStorage(backend)
    /\ UNCHANGED <<store, osCall, biometric,
                   uiVars, mgrAccount, walletManager, isInitialized, providerError,
                   environment, adapters,
                   wallet, account, isLoading, hookError, call, lastCall, issued>>
    /\ UNCHANGED rlVars
    /\ UNCHANGED auditVars

\* A caller invokes isAvailable().
IsAvailableCall ==
    LET r == IsAvailable(secureStorage)
    IN  /\ secureStorage.constructed
        /\ secureStorage' = r.ss
        /\ osCall' = [fn |-> "isAvailableAsync", key |-> Null, requested |-> NoOptions,
                      storeOptions |-> EmptyStoreOptions, ok |-> r.value, value |-> 0]
        /\ UNCHANGED <<store, biometric,
                       uiVars, mgrAccount, walletManager, isInitialized, providerError,
                       environment, adapters,
                       wallet, account, isLoading, hookError, call, lastCall, issued>>
        /\ UNCHANGED rlVars
        /\ UNCHANGED auditVars

\* A caller invokes setItem(key, value, options).  When getSecureStore throws
\* nothing reaches the store; `fault`: the store rejects the call.
SetItemCall(key, value, options, fault) ==
    LET g == GetSecureStore(secureStorage)
        r == SetItem(store, key, value, fault)
    IN  /\ secureStorage.constructed
        /\ secureStorage' = g.ss
        /\ store' = IF g.ok THEN r.store ELSE store
        /\ osCall' = IF ~g.ok
                     THEN [NoOsCall EXCEPT !.fn = "setItem", !.key = key, !.ok = FALSE]
                     ELSE [fn |-> "setItemAsync", key |-> key, requested |-> options,
                           storeOptions |-> SetStoreOptions(options),
                           ok |-> r.ok, value |-> 0]
        /\ UNCHANGED <<biometric,
                       uiVars, mgrAccount, walletManager, isInitialized, providerError,
                       environment, adapters,
                       wallet, account, isLoading, hookError, call, lastCall, issued>>
        /\ UNCHANGED rlVars
        /\ UNCHANGED auditVars

\* A caller invokes getItem(key, options).
GetItemCall(key, options, fault) ==
    LET g == GetSecureStore(secureStorage)
        r == GetItem(store, key, fault)
    IN  /\ secureStorage.constructed
        /\ secureStorage' = g.ss
        /\ osCall' = IF ~g.ok
                     THEN [NoOsCall EXCEPT !.fn = "getItem", !.key = key, !.ok = FALSE]
                     ELSE [fn |-> "getItemAsync", key |-> key, requested |-> options,
                           storeOptions |-> GetStoreOptions(options),
                           ok |-> r.ok, value |-> r.value]
        /\ UNCHANGED <<store, biometric,
                       uiVars, mgrAccount, walletManager, isInitialized, providerError,
                       environment, adapters,
                       wallet, account, isLoading, hookError, call, lastCall, issued>>
        /\ UNCHANGED rlVars
        /\ UNCHANGED auditVars

\* A caller invokes removeItem(key).
RemoveItemCall(key, fault) ==
    LET g == GetSecureStore(secureStorage)
        r == RemoveItem(store, key, fault)
    IN  /\ secureStorage.constructed
        /\ secureStorage' = g.ss
        /\ store' = IF g.ok THEN r.store ELSE store
        /\ osCall' = IF ~g.ok
                     THEN [NoOsCall EXCEPT !.fn = "removeItem", !.key = key, !.ok = FALSE]
                     ELSE [fn |-> "deleteItemAsync", key |-> key, requested |-> NoOptions,
                           storeOptions |-> EmptyStoreOptions, ok |-> r.ok, value |-> 0]
        /\ UNCHANGED <<biometric,
                       uiVars, mgrAccount, walletManager, isInitialized, providerError,
                       environment, adapters,
                       wallet, account, isLoading, hookError, call, lastCall, issued>>
        /\ UNCHANGED rlVars
        /\ UNCHANGED auditVars

(***************************************************************************)
(* Biometric adapter                                                       *)
(***************************************************************************)
\* What LocalAuth.authenticateAsync does: it resolves with success, resolves
\* without success after a cancel or a failed match, or rejects.
ChallengeOutcomes == {"success", "user_cancel", "not_matched", "rejects"}

\* calls: authenticate calls made; challenges: authenticateAsync calls made;
\* outcomes, returned: per authenticate call, what the OS did and what the
\* caller got.
NoBiometric ==
    [calls |-> 0, challenges |-> 0, outcomes |-> <<>>, returned |-> <<>>]

\* what authenticate hands to its caller for an outcome of authenticateAsync
AuthenticateResult(outcome) ==
    IF outcome = "rejects" THEN "throws"
    ELSE IF outcome = "success" THEN "true" ELSE "false"

Authenticate_RetriesOnce(b, outcome) ==
    [calls |-> b.calls + 1,
     challenges |-> b.challenges + (IF outcome \in {"user_cancel", "not_matched"}
                                    THEN 2 ELSE 1),
     outcomes |-> Append(b.outcomes, outcome),
     returned |-> Append(b.returned, AuthenticateResult(outcome))]

\* authenticate(promptMessage): one authenticateAsync call, whose
\* result.success is returned; a rejection propagates
Authenticate(b, outcome) ==
    [calls |-> b.calls + 1,
     challenges |-> b.challenges + 1,
     outcomes |-> Append(b.outcomes, outcome),
     returned |-> Append(b.returned, AuthenticateResult(outcome))]

\* authenticate when the require of expo-local-authentication throws
AuthenticateNoModule(b) ==
    [calls |-> b.calls + 1, challenges |-> b.challenges,
     outcomes |-> Append(b.outcomes, "no_module"),
     returned |-> Append(b.returned, "throws")]

\* A caller invokes authenticate(); `installed`: expo-local-authentication
\* can be required.
AuthenticateCall(installed, outcome) ==
    /\ biometric.calls < MaxAuth
    /\ biometric' = IF installed THEN Authenticate(biometric, outcome)
                    ELSE AuthenticateNoModule(biometric)
    /\ UNCHANGED <<store, osCall, secureStorage,
                   uiVars, mgrAccount, walletManager, isInitialized, providerError,
                   environment, adapters,
                   wallet, account, isLoading, hookError, call, lastCall, issued>>
    /\ UNCHANGED rlVars
    /\ UNCHANGED auditVars

(***************************************************************************)
(* Key derivation.  Mnemonics, private keys and addresses are numbers; 0   *)
(* is a malformed mnemonic or key, and the absence of a value.             *)
(***************************************************************************)
\* the valid mnemonics of the model
Mnemonics == { 1, 2 }

\* the private key of the account a mnemonic derives
KeyOfMnemonic(m) == 2 * m + 1

\* a valid private key that no mnemonic of the model derives
ForeignKeys == { 2 }

PrivateKeys == { KeyOfMnemonic(m) : m \in Mnemonics } \cup ForeignKeys

\* the address of a private key
AddressOfKey(k) == 40 + k

\* the 42 characters of an address
AddressText(a) == [len |-> 42, first6 |-> a, last4 |-> a]

ErrorCodes ==
    [INVALID_MNEMONIC |-> "INVALID_MNEMONIC",
     INVALID_PRIVATE_KEY |-> "INVALID_PRIVATE_KEY",
     WALLET_NOT_FOUND |-> "WALLET_NOT_FOUND",
     WALLET_ALREADY_EXISTS |-> "WALLET_ALREADY_EXISTS",
     SECURE_STORAGE_UNAVAILABLE |-> "SECURE_STORAGE_UNAVAILABLE",
     BIOMETRIC_FAILED |-> "BIOMETRIC_FAILED"]

(***************************************************************************)
(* Wallet key manager.  Each operation answers what it returns or throws,  *)
(* the secure store and the active account it leaves, and the audit calls  *)
(* it makes.                                                               *)
(***************************************************************************)
Violation == [via |-> "logSecurityViolation", type |-> "SECURITY_VIOLATION", address |-> NoAddress]

Event(type, a) == [via |-> "log", type |-> type, address |-> AddressText(a)]

Thrown(code, st, acct, events) ==
    [ok |-> FALSE, err |-> code, wallet |-> 0, mnemonic |-> 0,
     store |-> st, acct |-> acct, events |-> events]

Returned(w, m, st, acct, events) ==
    [ok |-> TRUE, err |-> Null, wallet |-> w, mnemonic |-> m,
     store |-> st, acct |-> acct, events |-> events]

\* persist the material of a wallet: mnemonic (0 for an imported key),
\* private key and wallet data
Persist(st, m, k, fault) ==
    LET a == SetItem(st, STORAGE_KEYS.MNEMONIC, m, fault)
        b == SetItem(a.store, STORAGE_KEYS.PRIVATE_KEY, k, fault)
        c == SetItem(b.store, STORAGE_KEYS.WALLET_DATA, AddressOfKey(k), fault)
    IN  [ok |-> a.ok /\ b.ok /\ c.ok, store |-> c.store]

MgrCreateWallet(st, acct, m, fault) ==
    IF acct # 0
    THEN Thrown(ErrorCodes.WALLET_ALREADY_EXISTS, st, acct, <<Violation>>)
    ELSE LET p == Persist(st, m, KeyOfMnemonic(m), fault)
             a == AddressOfKey(KeyOfMnemonic(m))
         IN  IF ~p.ok
             THEN Thrown(ErrorCodes.SECURE_STORAGE_UNAVAILABLE, st, acct, <<Violation>>)
             ELSE Returned(a, m, p.store, a, <<Event("WALLET_CREATED", a)>>)

MgrRecoverWallet(st, acct, m, fault) ==
    IF m \notin Mnemonics
    THEN Thrown(ErrorCodes.INVALID_MNEMONIC, st, acct, <<Violation>>)
    ELSE LET p == Persist(st, m, KeyOfMnemonic(m), fault)
             a == AddressOfKey(KeyOfMnemonic(m))
         IN  IF ~p.ok
             THEN Thrown(ErrorCodes.SECURE_STORAGE_UNAVAILABLE, st, acct, <<Violation>>)
             ELSE Returned(a, 0, p.store, a, <<Event("WALLET_RECOVERED", a)>>)

MgrImportFromPrivateKey(st, acct, k, fault) ==
    IF k \notin PrivateKeys
    THEN Thrown(ErrorCodes.INVALID_PRIVATE_KEY, st, acct, <<Violation>>)
    ELSE LET p == Persist(st, 0, k, fault)
             a == AddressOfKey(k)
         IN  IF ~p.ok
             THEN Thrown(ErrorCodes.SECURE_STORAGE_UNAVAILABLE, st, acct, <<Violation>>)
             ELSE Returned(a, 0, p.store, a, <<Event("WALLET_IMPORTED", a)>>)

MgrLoadWallet(st, acct, fault) ==
    LET g == GetItem(st, STORAGE_KEYS.PRIVATE_KEY, fault)
    IN  IF ~g.ok
        THEN Thrown(ErrorCodes.SECURE_STORAGE_UNAVAILABLE, st, acct, <<Violation>>)
        ELSE IF g.value = 0 THEN Returned(0, 0, st, acct, <<>>)
        ELSE Returned(AddressOfKey(g.value), 0, st, AddressOfKey(g.value),
                      <<Event("WALLET_CONNECTED", AddressOfKey(g.value))>>)

MgrDeleteWallet(st, acct, fault) ==
    LET a == RemoveItem(st, STORAGE_KEYS.MNEMONIC, fault)
        b == RemoveItem(a.store, STORAGE_KEYS.PRIVATE_KEY, fault)
        c == RemoveItem(b.store, STORAGE_KEYS.WALLET_DATA, fault)
    IN  IF ~(a.ok /\ b.ok /\ c.ok)
        THEN Thrown(ErrorCodes.SECURE_STORAGE_UNAVAILABLE, st, acct, <<Violation>>)
        ELSE Returned(0, 0, c.store, 0,
                      IF st # EmptyStore
                      THEN <<Event("WALLET_DELETED", st[STORAGE_KEYS.WALLET_DATA])>>
                      ELSE <<>>)

\* the audit calls of an operation, made in order at time t
RECURSIVE ApplyEvents(_, _, _, _)
ApplyEvents(entries, cfg, events, t) ==
    IF events = <<>> THEN entries
    ELSE LET e == Head(events)
             next == IF e.via = "logSecurityViolation"
                     THEN LogSecurityViolation(entries, cfg, <<"W">>, t)
                     ELSE Log(entries, cfg, e.type, NoDetails, e.address, t)
         IN  ApplyEvents(next, cfg, Tail(events), t)

\* console output after audit calls that left the entries `after`
ConsoleAfter(cfg, before, after, logged) ==
    IF cfg.enableConsoleLog /\ logged /\ after # <<>> THEN <<after[Len(after)]>>
    ELSE before

\* the audit entry type that closes an export
ExportResultType(kind, ok) ==
    IF kind = "mnemonic"
    THEN (IF ok THEN "MNEMONIC_EXPORT_SUCCESS" ELSE "MNEMONIC_EXPORT_FAILED")
    ELSE (IF ok THEN "PRIVATE_KEY_EXPORT_SUCCESS" ELSE "PRIVATE_KEY_EXPORT_FAILED")

\* the storage key an export reads
ExportStorageKey(kind) ==
    IF kind = "mnemonic" THEN STORAGE_KEYS.MNEMONIC ELSE STORAGE_KEYS.PRIVATE_KEY

(***************************************************************************)
(* Client, provider and hook                                               *)
(***************************************************************************)
\* GiwaClient.setAccount / clearAccount: the account of the wallet client
SetAccount(acct) == acct

ClearAccount == 0

SetWallet_Ignores(newWallet, hasManager, managerAccount, cur) == cur

\* GiwaProvider.setWallet(newWallet): the wallet state and client account
SetWallet(newWallet, hasManager, managerAccount, cur) ==
    [wallet |-> newWallet,
     account |-> IF newWallet # 0 /\ hasManager
                 THEN (IF managerAccount # 0 THEN SetAccount(managerAccount)
                       ELSE cur.account)
                 ELSE ClearAccount]

HasWallet_Constant(w) == TRUE

\* useGiwaWallet: hasWallet = wallet !== null
HasWallet(w) == w # 0

HookOutcome_SetsAnyway(r, cur, next) == next

\* try { result = await manager.op(); setWallet(..) } catch { setError; throw }
HookOutcome(r, cur, next) == IF r.ok THEN next ELSE cur

HookError_Dropped(r) == Null

\* setError(null) before the call, setError(error) in its catch
HookError(r) == IF r.ok THEN Null ELSE r.err

NotReady == "SDK is still initializing"

NoCallYet == [op |-> Null, arg |-> 0, ok |-> TRUE, err |-> Null, ret |-> 0]

NotIssued == [m \in Mnemonics |-> [address |-> 0, deleted |-> FALSE]]

\* the mnemonic m was handed to the caller for the wallet at address a
Issue(iss, m, a) == [iss EXCEPT ![m] = [address |-> a, deleted |-> FALSE]]

\* the wallet at address a was deleted
MarkDeleted(iss, a) ==
    [m \in Mnemonics |->
        IF iss[m].address = a /\ a # 0 THEN [iss[m] EXCEPT !.deleted = TRUE]
        ELSE iss[m]]

\* GiwaProvider before its initialize effect has run: isLoading starts true.
\* pc: where the initialization body is; race: the state of Promise.race;
\* timer: the initTimeout timer; runs: the runs of the effect so far.
NoEffect ==
    [pc |-> "unmounted", race |-> "none", timer |-> "none", loading |-> TRUE,
     autoConnect |-> "undefined", runs |-> 0]

\* useBalance before its first fetch.  target: targetAddress (0 = undefined);
\* fetches: the addresses of the getEthBalance calls in flight; balance: the
\* balance state (0 = 0n); of: the address that balance was fetched for.
NoBalance ==
    [target |-> 0, fetches |-> <<>>, balance |-> 0, of |-> 0, error |-> Null,
     isLoading |-> FALSE]

\* getInstance() without a config
NoAuditConfig == [defined |-> FALSE, maxLogEntries |-> 0]

\* new SecurityAuditLogger(config): { enableConsoleLog: __DEV__ || false,
\* maxLogEntries: 100, ...config }
NewSecurityAuditLogger(cfg) ==
    [config |-> [maxLogEntries |-> IF cfg.defined THEN cfg.maxLogEntries ELSE 100,
                 enableConsoleLog |-> FALSE,
                 customLogHandler |-> "none"],
     logEntries |-> <<>>]

\* SecurityAuditLogger.getInstance(config): the static field afterwards is
\* the instance returned.  loggers holds the instances created so far,
\* instance the index of the one in the static field (0 = null).
GetInstance(sg, cfg) ==
    IF sg.instance = 0
    THEN [sg EXCEPT !.loggers = Append(@, NewSecurityAuditLogger(cfg)),
                    !.instance = Len(sg.loggers) + 1]
    ELSE sg

\* SecurityAuditLogger.resetInstance()
ResetInstance(sg) == [sg EXCEPT !.instance = 0]

\* securityAudit.ts evaluated: `export const securityAudit = getInstance()`
ModuleEvaluated ==
    LET sg == GetInstance([instance |-> 0, exported |-> 0, loggers |-> <<>>, calls |-> 0],
                          NoAuditConfig)
    IN  [sg EXCEPT !.exported = sg.instance]

\* new ExpoClipboard() on an empty clipboard.  content: the system
\* clipboard (0 = ''); timers: the timers set so far, each with the text of
\* its call, its state and the content its callback has read;
\* clearTimeoutId: the index of the timer in this.clearTimeoutId (0 = null).
NoClipboard == [content |-> 0, timers |-> <<>>, clearTimeoutId |-> 0]

\* The provider is not mounted, no hook has been called, nothing is copied.
UiIdle ==
    /\ effect = NoEffect
    /\ pending = <<>>
    /\ balance = NoBalance
    /\ singleton = ModuleEvaluated
    /\ clipboard = NoClipboard

IdleCall ==
    [pc |-> "idle", kind |-> Null, bio |-> FALSE, steps |-> <<>>,
     err |-> Null, ret |-> 0]

Cur == [wallet |-> wallet, account |-> account]

\* The wallet side of a process that has not mounted the provider.
WalletIdle ==
    /\ store = EmptyStore
    /\ mgrAccount = 0
    /\ walletManager = FALSE
    /\ isInitialized = FALSE
    /\ providerError = Null
    /\ environment = Null
    /\ adapters = Null
    /\ wallet = 0
    /\ account = 0
    /\ isLoading = FALSE
    /\ hookError = Null
    /\ call = IdleCall
    /\ lastCall = NoCallYet
    /\ issued = NotIssued
    /\ osCall = NoOsCall
    /\ secureStorage = NotConstructed
    /\ biometric = NoBiometric
    /\ UiIdle

\* A fresh install, or a device that kept the wallet of an earlier session.
WalletInit ==
    /\ store \in { EmptyStore,
                   Persist(EmptyStore, 1, KeyOfMnemonic(1), FALSE).store }
    /\ mgrAccount = 0
    /\ walletManager = FALSE
    /\ isInitialized = FALSE
    /\ providerError = Null
    /\ environment = Null
    /\ adapters = Null
    /\ wallet = 0
    /\ account = 0
    /\ isLoading = FALSE
    /\ hookError = Null
    /\ call = IdleCall
    /\ lastCall = NoCallYet
    /\ issued = NotIssued
    /\ osCall = NoOsCall
    /\ secureStorage = NotConstructed
    /\ biometric = NoBiometric
    /\ UiIdle

\* What an operation of the manager leaves behind, and what the UI saw.
Finish(op, arg, r, w) ==
    /\ store' = r.store
    /\ UNCHANGED adapterVars
    /\ mgrAccount' = r.acct
    /\ wallet' = w.wallet
    /\ account' = w.account
    /\ logEntries' = ApplyEvents(logEntries, auditConfig, r.events, now)
    /\ consoleLast' = ConsoleAfter(auditConfig, consoleLast, logEntries', r.events # <<>>)
    /\ lastCall' = [op |-> op, arg |-> arg, ok |-> r.ok, err |-> r.err,
                    ret |-> r.wallet]
    /\ issued' = IF r.ok /\ r.mnemonic # 0 THEN Issue(issued, r.mnemonic, r.wallet)
                 ELSE IF r.ok /\ op = "deleteWallet" THEN MarkDeleted(issued, mgrAccount)
                 ELSE issued
    /\ UNCHANGED <<auditConfig, sinkCalls, logLast, recentLogs, call>>
    /\ UNCHANGED rlVars

EnvironmentUsable_Always(env) == TRUE

\* initialize goes on only when `env === 'unsupported'` is false
EnvironmentUsable(env) == env # "unsupported"

\* config.autoConnect as the application passes it
AutoConnectValues == {"true", "false", "undefined"}

\* `autoConnect !== false`
AutoConnectEnabled(autoConnect) == autoConnect # "false"

\* GiwaProvider's initialize effect
Initialize(env, autoConnect, fault) ==
    /\ ~walletManager /\ ~isInitialized /\ providerError = Null
    /\ environment' = env
    /\ IF ~EnvironmentUsable(env)
       THEN /\ providerError' = "Secure storage not found"
            /\ lastCall' = [op |-> "initialize", arg |-> 0, ok |-> FALSE,
                            err |-> "Secure storage not found", ret |-> 0]
            /\ UNCHANGED <<store, adapterVars, uiVars, mgrAccount, walletManager, isInitialized, adapters,
                           wallet, account, isLoading, hookError, call, issued>>
            /\ UNCHANGED auditVars
            /\ UNCHANGED rlVars
       ELSE /\ adapters' = env
            /\ walletManager' = TRUE
            /\ IF AutoConnectEnabled(autoConnect)
               THEN LET r == MgrLoadWallet(store, mgrAccount, fault)
                        next == [wallet |-> IF r.wallet # 0 THEN r.wallet ELSE wallet,
                                 account |-> IF r.wallet # 0 /\ r.acct # 0
                                             THEN SetAccount(r.acct) ELSE account]
                    IN  /\ Finish("initialize", 0, r, IF r.ok THEN next ELSE Cur)
                        /\ isInitialized' = r.ok
                        /\ providerError' = IF r.ok THEN Null ELSE r.err
               ELSE /\ Finish("initialize", 0,
                              Returned(0, 0, store, mgrAccount, <<>>), Cur)
                    /\ isInitialized' = TRUE
                    /\ providerError' = Null
            /\ UNCHANGED <<isLoading, hookError>>
            /\ UNCHANGED uiVars

\* A hook operation called before the provider has a wallet manager.
HookNotReady(op) ==
    /\ ~walletManager
    /\ lastCall' = [op |-> op, arg |-> 0, ok |-> FALSE, err |-> NotReady, ret |-> 0]
    /\ UNCHANGED <<store, adapterVars, uiVars, mgrAccount, walletManager, isInitialized, providerError,
                   environment, adapters,
                   wallet, account, isLoading, hookError, call, issued>>
    /\ UNCHANGED auditVars
    /\ UNCHANGED rlVars

\* The part every hook operation shares: guard, isLoading, error.
HookCall(op, arg, r, next) ==
    /\ walletManager
    /\ call.pc = "idle"
    /\ isLoading' = FALSE
    /\ hookError' = HookError(r)
    /\ Finish(op, arg, r, HookOutcome(r, Cur, next))
    /\ UNCHANGED <<walletManager, isInitialized, providerError, environment, adapters>>
    /\ UNCHANGED uiVars

CreateWallet(m, fault) ==
    LET r == MgrCreateWallet(store, mgrAccount, m, fault)
    IN  HookCall("createWallet", 0, r, SetWallet(r.wallet, walletManager, r.acct, Cur))

RecoverWallet(m, fault) ==
    LET r == MgrRecoverWallet(store, mgrAccount, m, fault)
    IN  HookCall("recoverWallet", m, r, SetWallet(r.wallet, walletManager, r.acct, Cur))

ImportFromPrivateKey(k, fault) ==
    LET r == MgrImportFromPrivateKey(store, mgrAccount, k, fault)
    IN  HookCall("importFromPrivateKey", 0, r,
                 SetWallet(r.wallet, walletManager, r.acct, Cur))

LoadWallet(fault) ==
    LET r == MgrLoadWallet(store, mgrAccount, fault)
    IN  HookCall("loadWallet", 0, r,
                 IF r.wallet # 0 THEN SetWallet(r.wallet, walletManager, r.acct, Cur)
                 ELSE Cur)

DeleteWallet(fault) ==
    LET r == MgrDeleteWallet(store, mgrAccount, fault)
    IN  HookCall("deleteWallet", 0, r, SetWallet(0, walletManager, r.acct, Cur))

(***************************************************************************)
(* exportMnemonic / exportPrivateKey: the hook starts the call, the        *)
(* manager takes its steps one await at a time, the hook settles it.       *)
(***************************************************************************)
ExportOps == [mnemonic |-> "exportMnemonic", privateKey |-> "exportPrivateKey"]

ExportKinds == {"mnemonic", "privateKey"}

ExportRateKey == "export"

WalletUnchanged ==
    UNCHANGED <<store, adapterVars, uiVars, mgrAccount, walletManager, isInitialized, providerError,
                environment, adapters,
                wallet, account, lastCall, issued>>

\* the hook: guard, setIsLoading(true), setError(null), await manager.export..
ExportStart(kind, bio) ==
    /\ walletManager
    /\ call.pc = "idle"
    /\ isLoading' = TRUE
    /\ hookError' = Null
    /\ call' = [pc |-> "rate", kind |-> kind, bio |-> bio, steps |-> <<>>,
                err |-> Null, ret |-> 0]
    /\ WalletUnchanged
    /\ UNCHANGED auditVars
    /\ UNCHANGED rlVars

\* (1) the rate limiter is asked; a rejection is audited and thrown
ExportRateCheck ==
    /\ call.pc = "rate"
    /\ LET r == CheckLimit(attempts, cooldowns, ExportRateKey, EXPORT_RATE_LIMIT, now)
       IN  /\ attempts' = r.attempts
           /\ cooldowns' = r.cooldowns
           /\ IF r.ok
              THEN /\ call' = [call EXCEPT !.pc = "audit",
                                           !.steps = Append(@, "rate:ok")]
                   /\ UNCHANGED auditVars
              ELSE /\ logEntries' = LogRateLimitTriggered(logEntries, auditConfig,
                                        <<"W">>, r.seconds, now)
                   /\ consoleLast' = ConsoleAfter(auditConfig, consoleLast,
                                                  logEntries', TRUE)
                   /\ call' = [call EXCEPT
                                 !.pc = "settle",
                                 !.err = r.error.code,
                                 !.steps = @ \o <<"rate:rejected">>
                                             \o (IF logEntries' # <<>>
                                                 THEN <<logEntries'[Len(logEntries')].type>>
                                                 ELSE <<>>)]
                   /\ UNCHANGED <<auditConfig, sinkCalls, logLast, recentLogs>>
    /\ UNCHANGED <<now, config, rlLast, rlRef, rlRead, callers, isLoading, hookError>>
    /\ WalletUnchanged

\* (2) the attempt is audited
ExportAuditAttempt ==
    /\ call.pc = "audit"
    /\ logEntries' = LogExportAttempt(logEntries, auditConfig, call.kind, call.bio,
                         GetRemainingAttempts(attempts, cooldowns, ExportRateKey,
                                              EXPORT_RATE_LIMIT, now), now)
    /\ consoleLast' = ConsoleAfter(auditConfig, consoleLast, logEntries', TRUE)
    /\ call' = [call EXCEPT !.pc = IF call.bio THEN "bio" ELSE "vault",
                            !.steps = Append(@, logEntries'[Len(logEntries')].type)]
    /\ UNCHANGED <<auditConfig, sinkCalls, logLast, recentLogs, isLoading, hookError>>
    /\ UNCHANGED rlVars
    /\ WalletUnchanged

\* (3) the biometric challenge, when required; a refusal is audited and thrown
ExportBiometric(accepted) ==
    /\ call.pc = "bio"
    /\ IF accepted
       THEN /\ call' = [call EXCEPT !.pc = "vault", !.steps = Append(@, "bio:ok")]
            /\ UNCHANGED auditVars
       ELSE /\ logEntries' = Log(logEntries, auditConfig,
                                 ExportResultType(call.kind, FALSE), NoDetails,
                                 NoAddress, now)
            /\ consoleLast' = ConsoleAfter(auditConfig, consoleLast, logEntries', TRUE)
            /\ call' = [call EXCEPT
                          !.pc = "settle",
                          !.err = ErrorCodes.BIOMETRIC_FAILED,
                          !.steps = @ \o <<"bio:declined",
                                           logEntries'[Len(logEntries')].type>>]
            /\ UNCHANGED <<auditConfig, sinkCalls, logLast, recentLogs>>
    /\ UNCHANGED <<isLoading, hookError>>
    /\ UNCHANGED rlVars
    /\ WalletUnchanged

\* (4) the vault is read and (5) the outcome is audited
ExportVaultRead(fault) ==
    /\ call.pc = "vault"
    /\ LET g == GetItem(store, ExportStorageKey(call.kind), fault)
           found == g.ok /\ g.value # 0
       IN  /\ logEntries' = Log(logEntries, auditConfig,
                                ExportResultType(call.kind, found), NoDetails,
                                IF mgrAccount # 0 THEN AddressText(mgrAccount)
                                ELSE NoAddress, now)
           /\ consoleLast' = ConsoleAfter(auditConfig, consoleLast, logEntries', TRUE)
           /\ call' = [call EXCEPT
                         !.pc = "settle",
                         !.err = IF g.ok THEN Null
                                 ELSE ErrorCodes.SECURE_STORAGE_UNAVAILABLE,
                         !.ret = g.value,
                         !.steps = @ \o <<IF g.ok THEN "vault:read" ELSE "vault:fault",
                                          logEntries'[Len(logEntries')].type>>]
    /\ UNCHANGED <<auditConfig, sinkCalls, logLast, recentLogs, isLoading, hookError>>
    /\ UNCHANGED rlVars
    /\ WalletUnchanged

\* the hook: return the secret, or setError and rethrow; setIsLoading(false)
ExportSettle ==
    /\ call.pc = "settle"
    /\ isLoading' = FALSE
    /\ hookError' = call.err
    /\ call' = IdleCall
    /\ lastCall' = [op |-> ExportOps[call.kind], arg |-> 0, ok |-> call.err = Null,
                    err |-> call.err, ret |-> call.ret]
    /\ issued' = IF call.kind = "mnemonic" /\ call.err = Null /\ call.ret # 0
                 THEN Issue(issued, call.ret, mgrAccount) ELSE issued
    /\ UNCHANGED <<store, adapterVars, uiVars, mgrAccount, walletManager, isInitialized, providerError,
                   environment, adapters, wallet, account>>
    /\ UNCHANGED auditVars
    /\ UNCHANGED rlVars

\* Time passes, one rate-limit window at a time.
Advance ==
    /\ now < MaxWindows * EXPORT_RATE_LIMIT.windowMs
    /\ now' = now + EXPORT_RATE_LIMIT.windowMs
    /\ UNCHANGED <<attempts, cooldowns, config, rlLast, rlRef, rlRead, callers>>
    /\ UNCHANGED auditVars
    /\ UNCHANGED walletVars

LifecycleOps ==
    { "createWallet", "recoverWallet", "importFromPrivateKey", "loadWallet",
      "deleteWallet" }

HookOps == LifecycleOps \cup { "exportMnemonic", "exportPrivateKey" }

WalletSpecInit == RLIdle /\ AuditIdle /\ WalletInit

\* The provider mounts and the UI creates, recovers, imports, loads and
\* deletes wallets.
WalletNext ==
    \/ \E env \in {"expo", "unsupported"}, autoConnect \in AutoConnectValues,
          fault \in BOOLEAN :
           Initialize(env, autoConnect, fault)
    \/ \E op \in LifecycleOps : HookNotReady(op)
    \/ \E m \in Mnemonics, fault \in BOOLEAN : CreateWallet(m, fault)
    \/ \E m \in Mnemonics \cup {0}, fault \in BOOLEAN : RecoverWallet(m, fault)
    \/ \E k \in PrivateKeys \cup {0}, fault \in BOOLEAN : ImportFromPrivateKey(k, fault)
    \/ \E fault \in BOOLEAN : LoadWallet(fault)
    \/ \E fault \in BOOLEAN : DeleteWallet(fault)

SpecWallet == WalletSpecInit /\ [][WalletNext]_vars

\* The same, with exports and with time passing.
ExportNext ==
    \/ WalletNext
    \/ \E op \in HookOps \ LifecycleOps : HookNotReady(op)
    \/ \E kind \in ExportKinds, bio \in BOOLEAN : ExportStart(kind, bio)
    \/ ExportRateCheck
    \/ ExportAuditAttempt
    \/ \E accepted \in BOOLEAN : ExportBiometric(accepted)
    \/ \E fault \in BOOLEAN : ExportVaultRead(fault)
    \/ ExportSettle
    \/ Advance

SpecExport == WalletSpecInit /\ [][ExportNext]_vars

SanitizeInit == RLIdle /\ AuditInit /\ WalletIdle

SanitizeNext ==
    \E details \in DetailsInputs : LogCall("SECURITY_VIOLATION", details)

SpecSanitize == SanitizeInit /\ [][SanitizeNext]_vars

\* The storage adapter on its own, holding secrets 1 and 2.
StorageInit == RLIdle /\ AuditIdle /\ WalletIdle

StorageNext ==
    \/ \E backend \in Backends : ConstructStorage(backend)
    \/ IsAvailableCall
    \/ \E key \in StorageKeys, fault \in BOOLEAN :
           \/ \E value \in {1, 2}, options \in StorageOptions :
                  SetItemCall(key, value, options, fault)
           \/ \E options \in StorageOptions : GetItemCall(key, options, fault)
           \/ RemoveItemCall(key, fault)

SpecStorage == StorageInit /\ [][StorageNext]_vars

\* The biometric adapter on its own.
BiometricInit == RLIdle /\ AuditIdle /\ WalletIdle

BiometricNext ==
    \E installed \in BOOLEAN, outcome \in ChallengeOutcomes :
        AuthenticateCall(installed, outcome)

SpecBiometric == BiometricInit /\ [][BiometricNext]_vars

\* The logger on its own: entries of two types, without details, with a
\* sensitive key, and with a harmless note.
LoggerDetails ==
    { NoDetails,
      [defined |-> TRUE, map |-> (<<"api", "Key">> :> Str(<<"W">>))],
      [defined |-> TRUE, map |-> (<<"note">> :> Str(<<"W">>))] }

LoggerInitAll == RLIdle /\ LoggerInit /\ WalletIdle

LoggerNext ==
    \/ \E type \in {"WALLET_CREATED", "SECURITY_VIOLATION"}, details \in LoggerDetails :
           LogCall(type, details)
    \/ \E count \in RecentCounts : GetRecentLogsCall(count)

SpecAudit == LoggerInitAll /\ [][LoggerNext]_vars

Init == RLInit /\ AuditIdle /\ WalletIdle

Next ==
    \/ Tick
    \/ \E key \in Keys : CheckLimitCall(key)

Spec == Init /\ [][Next]_vars

(***************************************************************************)
(* The operations of useGiwaWallet as the UI may start them: a call sets   *)
(* isLoading and error and awaits the manager; when the manager's promise  *)
(* settles the call goes on to setWallet or catch, then to finally.        *)
(* Nothing keeps the UI from starting a second call before the first has   *)
(* settled.                                                                *)
(***************************************************************************)
RemoveAt(seq, i) == SubSeq(seq, 1, i - 1) \o SubSeq(seq, i + 1, Len(seq))

\* The arguments the UI passes to an operation of the hook.
OpArgs(op) ==
    IF op = "createWallet" THEN Mnemonics
    ELSE IF op = "recoverWallet" THEN Mnemonics \cup {0}
    ELSE {0}

OverlapOps == {"createWallet", "recoverWallet", "loadWallet", "deleteWallet"}

\* What the manager call of a pending operation does when it runs.
MgrCall(op, arg, fault) ==
    IF op = "createWallet" THEN MgrCreateWallet(store, mgrAccount, arg, fault)
    ELSE IF op = "recoverWallet" THEN MgrRecoverWallet(store, mgrAccount, arg, fault)
    ELSE IF op = "loadWallet" THEN MgrLoadWallet(store, mgrAccount, fault)
    ELSE MgrDeleteWallet(store, mgrAccount, fault)

\* What the operation does with the manager's result: setWallet(...)
AfterMgrCall(op, r) ==
    IF op = "deleteWallet" THEN SetWallet(0, walletManager, r.acct, Cur)
    ELSE IF op = "loadWallet" /\ r.wallet = 0 THEN Cur
    ELSE SetWallet(r.wallet, walletManager, r.acct, Cur)

\* setIsLoading(true); setError(null); the manager call is awaited
OpStart(op, arg) ==
    /\ walletManager
    /\ Len(pending) < MaxPending
    /\ pending' = Append(pending, [op |-> op, arg |-> arg])
    /\ isLoading' = TRUE
    /\ hookError' = Null
    /\ UNCHANGED <<effect, balance, singleton, clipboard>>
    /\ UNCHANGED <<store, adapterVars, mgrAccount, walletManager, isInitialized,
                   providerError, environment, adapters, wallet, account, call,
                   lastCall, issued>>
    /\ UNCHANGED auditVars
    /\ UNCHANGED rlVars

\* The manager call of the i-th pending operation settles: setWallet or
\* catch { setError }, then finally { setIsLoading(false) }
OpSettle(i, fault) ==
    /\ i \in 1..Len(pending)
    /\ LET op == pending[i].op
           r == MgrCall(op, pending[i].arg, fault)
       IN  /\ Finish(op, pending[i].arg, r, HookOutcome(r, Cur, AfterMgrCall(op, r)))
           /\ hookError' = IF r.ok THEN hookError ELSE r.err
    /\ pending' = RemoveAt(pending, i)
    /\ isLoading' = FALSE
    /\ UNCHANGED <<effect, balance, singleton, clipboard>>
    /\ UNCHANGED <<walletManager, isInitialized, providerError, environment, adapters>>

OverlapNext ==
    \/ \E env \in {"expo", "unsupported"}, autoConnect \in AutoConnectValues,
          fault \in BOOLEAN :
           Initialize(env, autoConnect, fault)
    \/ \E op \in OverlapOps : \E arg \in OpArgs(op) : OpStart(op, arg)
    \/ \E i \in 1..MaxPending, fault \in BOOLEAN : OpSettle(i, fault)

SpecOverlap == WalletSpecInit /\ [][OverlapNext]_vars

(***************************************************************************)
(* useBalance(address): fetchBalance runs when targetAddress changes and   *)
(* when the UI calls refetch; each run awaits getEthBalance and then sets  *)
(* the balance it got.                                                     *)
(***************************************************************************)
Addresses == {41, 42, 43}

\* what getEthBalance(a) returns: every address holds a different amount
EthBalance(a) == a * 100

\* fetchBalance() up to its await, for the target address a
FetchBalance(b, a) ==
    IF a = 0
    THEN [b EXCEPT !.balance = 0, !.of = 0]
    ELSE [b EXCEPT !.fetches = Append(@, a), !.isLoading = TRUE, !.error = Null]

\* fetchBalance() after its await: setBalance(result.balance) or
\* setError(error), then finally { setIsLoading(false) }
FetchSettled(b, i, ok) ==
    LET a == b.fetches[i]
        rest == [b EXCEPT !.fetches = RemoveAt(@, i), !.isLoading = FALSE]
    IN  IF ok
        THEN [rest EXCEPT !.balance = EthBalance(a), !.of = a]
        ELSE [rest EXCEPT !.error = "Failed to fetch balance"]

BalanceFrame ==
    /\ UNCHANGED <<effect, pending, singleton, clipboard>>
    /\ UNCHANGED <<store, adapterVars, mgrAccount, walletManager, isInitialized,
                   providerError, environment, adapters, wallet, account, isLoading,
                   hookError, call, lastCall, issued>>
    /\ UNCHANGED auditVars
    /\ UNCHANGED rlVars

\* The address prop or the wallet changes: the effect calls fetchBalance.
TargetChanges(a) ==
    /\ a # balance.target
    /\ Len(balance.fetches) < MaxFetches
    /\ balance' = FetchBalance([balance EXCEPT !.target = a], a)
    /\ BalanceFrame

\* The UI calls refetch().
Refetch ==
    /\ Len(balance.fetches) < MaxFetches
    /\ balance' = FetchBalance(balance, balance.target)
    /\ BalanceFrame

\* The getEthBalance call of the i-th fetch in flight returns or throws.
FetchSettles(i, ok) ==
    /\ i \in 1..Len(balance.fetches)
    /\ balance' = FetchSettled(balance, i, ok)
    /\ BalanceFrame

BalanceNext ==
    \/ \E a \in Addresses \cup {0} : TargetChanges(a)
    \/ Refetch
    \/ \E i \in 1..MaxFetches, ok \in BOOLEAN : FetchSettles(i, ok)

SpecBalance == StorageInit /\ [][BalanceNext]_vars

(***************************************************************************)
(* The audit logger's singleton: callers log through the exported          *)
(* securityAudit / logSecurityEvent and through getInstance(config), and   *)
(* a caller may reset the singleton.                                       *)
(***************************************************************************)
SingletonConfigs == { NoAuditConfig, [defined |-> TRUE, maxLogEntries |-> 2] }

\* log(type) on the logger with index id
LogOn(sg, id, type) ==
    [sg EXCEPT !.loggers[id].logEntries =
                   Log(@, sg.loggers[id].config, type, NoDetails, NoAddress, now),
               !.calls = @ + 1]

SingletonFrame ==
    /\ UNCHANGED <<effect, pending, balance, clipboard>>
    /\ UNCHANGED <<store, adapterVars, mgrAccount, walletManager, isInitialized,
                   providerError, environment, adapters, wallet, account, isLoading,
                   hookError, call, lastCall, issued>>
    /\ UNCHANGED auditVars
    /\ UNCHANGED rlVars

\* securityAudit.log(type) or logSecurityEvent(type)
ExportedLog(type) ==
    /\ singleton.calls < MaxAuditCalls
    /\ singleton' = LogOn(singleton, singleton.exported, type)
    /\ SingletonFrame

\* SecurityAuditLogger.getInstance(config).log(type)
GetInstanceLog(cfg, type) ==
    /\ singleton.calls < MaxAuditCalls
    /\ LET sg == GetInstance(singleton, cfg)
       IN  singleton' = LogOn(sg, sg.instance, type)
    /\ SingletonFrame

ResetInstanceCall ==
    /\ singleton.instance # 0
    /\ singleton' = ResetInstance(singleton)
    /\ SingletonFrame

SingletonNext ==
    \/ \E type \in {"WALLET_CREATED", "SECURITY_VIOLATION"} : ExportedLog(type)
    \/ \E cfg \in SingletonConfigs, type \in {"WALLET_CREATED", "SECURITY_VIOLATION"} :
           GetInstanceLog(cfg, type)
    \/ ResetInstanceCall

SpecSingleton == StorageInit /\ [][SingletonNext]_vars

(***************************************************************************)
(* ExpoClipboard: copy, copyWithAutoClear and the callback of its timer,   *)
(* which reads the clipboard, awaits the result, and then compares and     *)
(* clears.                                                                 *)
(***************************************************************************)
Texts == {1, 2}

\* clearTimeout(id): a timer that has not fired yet never will
ClearTimeout(timers, id) ==
    IF id # 0 /\ timers[id].pc = "armed"
    THEN [timers EXCEPT ![id].pc = "cancelled"]
    ELSE timers

\* copy(text): Clipboard.setString(text)
Copy(cb, text) == [cb EXCEPT !.content = text]

\* copyWithAutoClear(text, clearAfterMs)
CopyWithAutoClear(cb, text) ==
    LET timers == ClearTimeout(cb.timers, cb.clearTimeoutId)
    IN  [content |-> text,
         timers |-> Append(timers, [text |-> text, pc |-> "armed", read |-> 0]),
         clearTimeoutId |-> Len(timers) + 1]

\* The callback of timer i starts: `await this.paste()` reads the clipboard.
TimerRead(cb, i) == [cb EXCEPT !.timers[i].pc = "reading", !.timers[i].read = cb.content]

\* The callback goes on after the await: `if (currentContent === text)
\* await this.clear()`, then `this.clearTimeoutId = null`.
TimerClear(cb, i) ==
    [cb EXCEPT !.content = IF cb.timers[i].read = cb.timers[i].text THEN 0 ELSE @,
               !.timers[i].pc = "done",
               !.clearTimeoutId = 0]

ClipboardFrame ==
    /\ UNCHANGED <<effect, pending, balance, singleton>>
    /\ UNCHANGED <<store, adapterVars, mgrAccount, walletManager, isInitialized,
                   providerError, environment, adapters, wallet, account, isLoading,
                   hookError, call, lastCall, issued>>
    /\ UNCHANGED auditVars
    /\ UNCHANGED rlVars

CopyCall(text) ==
    /\ clipboard' = Copy(clipboard, text)
    /\ ClipboardFrame

CopyWithAutoClearCall(text) ==
    /\ Len(clipboard.timers) < MaxTimers
    /\ clipboard' = CopyWithAutoClear(clipboard, text)
    /\ ClipboardFrame

TimerFires(i) ==
    /\ i \in 1..Len(clipboard.timers)
    /\ clipboard.timers[i].pc = "armed"
    /\ clipboard' = TimerRead(clipboard, i)
    /\ ClipboardFrame

TimerResumes(i) ==
    /\ i \in 1..Len(clipboard.timers)
    /\ clipboard.timers[i].pc = "reading"
    /\ clipboard' = TimerClear(clipboard, i)
    /\ ClipboardFrame

ClipboardNext ==
    \/ \E text \in Texts : CopyCall(text)
    \/ \E text \in Texts : CopyWithAutoClearCall(text)
    \/ \E i \in 1..MaxTimers : TimerFires(i)
    \/ \E i \in 1..MaxTimers : TimerResumes(i)

SpecClipboard == StorageInit /\ [][ClipboardNext]_vars

(***************************************************************************)
(* GiwaProvider's initialize effect, one await at a time, raced against    *)
(* the initTimeout timer.  A run that the effect's cleanup has marked      *)
(* unmounted (mounted = false) sets no state any more and is left out.     *)
(***************************************************************************)
TimedOutMessage == "SDK initialization timed out"

\* initialize(): setIsLoading(true), setError(null), setTimeout, Promise.race
StartRun(e, autoConnect) ==
    [pc |-> "detect", race |-> "pending", timer |-> "armed", loading |-> TRUE,
     autoConnect |-> autoConnect, runs |-> e.runs + 1]

Settled_KeepsLoading(e, outcome) ==
    IF e.race = "pending" THEN [e EXCEPT !.race = outcome, !.timer = "cleared"] ELSE e

\* The race settles on the outcome of the body, if the timer has not settled
\* it before: finally { clearTimeout(timeoutId); setIsLoading(false) }
Settled(e, outcome) ==
    IF e.race = "pending"
    THEN [e EXCEPT !.race = outcome, !.timer = "cleared", !.loading = FALSE]
    ELSE e

TimedOut_KeepsLoading(e) == [e EXCEPT !.race = "rejected", !.timer = "fired"]

\* The timer rejects the race: catch, then finally { setIsLoading(false) }
TimedOut(e) == [e EXCEPT !.race = "rejected", !.timer = "fired", !.loading = FALSE]

ErrorAfterBody_AlsoLate(e, err, cur) == err

\* catch (err) { setError(error) }, reached only while the race is pending
ErrorAfterBody(e, err, cur) == IF e.race = "pending" THEN err ELSE cur

ProviderFrame ==
    /\ UNCHANGED <<pending, balance, singleton, clipboard>>
    /\ UNCHANGED adapterVars
    /\ UNCHANGED <<isLoading, hookError, call, lastCall, issued>>
    /\ UNCHANGED <<auditConfig, sinkCalls, logLast, recentLogs>>
    /\ UNCHANGED rlVars

\* The provider mounts and the effect runs for the first time.
Mount(autoConnect) ==
    /\ effect.pc = "unmounted"
    /\ effect' = StartRun(effect, autoConnect)
    /\ providerError' = Null
    /\ UNCHANGED <<store, mgrAccount, walletManager, isInitialized, environment, adapters,
                   wallet, account, logEntries, consoleLast>>
    /\ ProviderFrame

\* A dependency of the effect changes: the cleanup unmounts the running
\* closure and clears its timer, and the effect runs again.  A change of
\* config.network or config.customRpcUrl also replaces the client by a
\* new GiwaClient, which has no wallet client.
DepsChange(autoConnect, newClient) ==
    /\ effect.pc # "unmounted"
    /\ effect.runs < MaxRuns
    /\ newClient \/ autoConnect # effect.autoConnect
    /\ effect' = StartRun(effect, autoConnect)
    /\ providerError' = Null
    /\ account' = IF newClient THEN 0 ELSE account
    /\ UNCHANGED <<store, mgrAccount, walletManager, isInitialized, environment, adapters,
                   wallet, logEntries, consoleLast>>
    /\ ProviderFrame

\* await factory.detectEnvironment() returns env
InitDetect(env) ==
    /\ effect.pc = "detect"
    /\ environment' = env
    /\ IF EnvironmentUsable(env)
       THEN /\ effect' = [effect EXCEPT !.pc = "adapters"]
            /\ UNCHANGED providerError
       ELSE /\ effect' = [Settled(effect, "rejected") EXCEPT !.pc = "failed"]
            /\ providerError' = ErrorAfterBody(effect, "Secure storage not found",
                                               providerError)
    /\ UNCHANGED <<store, mgrAccount, walletManager, isInitialized, adapters,
                   wallet, account, logEntries, consoleLast>>
    /\ ProviderFrame

\* await factory.getAdapters() returns: setAdapters, new WalletManager; with
\* autoConnect === false the body runs on to setIsInitialized(true)
InitAdapters ==
    /\ effect.pc = "adapters"
    /\ adapters' = environment
    /\ walletManager' = TRUE
    /\ mgrAccount' = 0
    /\ IF AutoConnectEnabled(effect.autoConnect)
       THEN /\ effect' = [effect EXCEPT !.pc = "load"]
            /\ UNCHANGED isInitialized
       ELSE /\ effect' = [Settled(effect, "resolved") EXCEPT !.pc = "done"]
            /\ isInitialized' = TRUE
    /\ UNCHANGED <<store, providerError, environment, wallet, account,
                   logEntries, consoleLast>>
    /\ ProviderFrame

\* await manager.loadWallet() returns or throws
InitLoad(fault) ==
    LET r == MgrLoadWallet(store, mgrAccount, fault)
    IN  /\ effect.pc = "load"
        /\ store' = r.store
        /\ mgrAccount' = r.acct
        /\ logEntries' = ApplyEvents(logEntries, auditConfig, r.events, now)
        /\ consoleLast' = ConsoleAfter(auditConfig, consoleLast, logEntries',
                                       r.events # <<>>)
        /\ IF r.ok
           THEN /\ wallet' = IF r.wallet # 0 THEN r.wallet ELSE wallet
                /\ account' = IF r.wallet # 0 /\ r.acct # 0
                              THEN SetAccount(r.acct) ELSE account
                /\ isInitialized' = TRUE
                /\ effect' = [Settled(effect, "resolved") EXCEPT !.pc = "done"]
                /\ UNCHANGED providerError
           ELSE /\ effect' = [Settled(effect, "rejected") EXCEPT !.pc = "failed"]
                /\ providerError' = ErrorAfterBody(effect, r.err, providerError)
                /\ UNCHANGED <<wallet, account, isInitialized>>
        /\ UNCHANGED <<walletManager, environment, adapters>>
        /\ ProviderFrame

\* The initTimeout timer fires while the race is pending.
InitTimeout ==
    /\ effect.timer = "armed"
    /\ effect.race = "pending"
    /\ effect' = TimedOut(effect)
    /\ providerError' = TimedOutMessage
    /\ UNCHANGED <<store, mgrAccount, walletManager, isInitialized, environment, adapters,
                   wallet, account, logEntries, consoleLast>>
    /\ ProviderFrame

\* The provider with its effect, and the UI using the wallet hook.
ProviderNext ==
    \/ \E autoConnect \in AutoConnectValues : Mount(autoConnect)
    \/ \E autoConnect \in AutoConnectValues, newClient \in BOOLEAN :
           DepsChange(autoConnect, newClient)
    \/ \E env \in {"expo", "unsupported"} : InitDetect(env)
    \/ InitAdapters
    \/ \E fault \in BOOLEAN : InitLoad(fault)
    \/ InitTimeout
    \/ \E m \in Mnemonics, fault \in BOOLEAN : CreateWallet(m, fault)
    \/ \E fault \in BOOLEAN : DeleteWallet(fault)

SpecProvider == WalletSpecInit /\ [][ProviderNext]_vars

\* The same, with a timer that fires when it is due.
SpecProviderLive == SpecProvider /\ WF_vars(InitTimeout)

\* The limiter on a millisecond clock, for the seconds its rejections report.
SecondsInit ==
    /\ now = 0
    /\ attempts = [k \in Keys |-> <<>>]
    /\ cooldowns = [k \in Keys |-> 0]
    /\ config \in SecondsConfigs
    /\ rlLast = NoCall
    /\ rlRef = [k \in Keys |-> NoRef]
    /\ rlRead = NoRead
    /\ callers = NoCallers
    /\ AuditIdle /\ WalletIdle

SecondsNext ==
    \/ Elapse
    \/ \E key \in Keys : CheckLimitCall(key)

SpecSeconds == SecondsInit /\ [][SecondsNext]_vars

\* The same, with the UI polling the limiter's projections.
ReadsNext ==
    \/ Next
    \/ \E key \in Keys : GetRemainingAttemptsCall(key)
    \/ \E key \in Keys : GetCooldownEndCall(key)

\* The polled limiter is run with the configurations that reach a cooldown
\* after a single attempt, one with the cooldown shorter than the window and
\* one with it longer.
ReadsInit == Init /\ config.maxAttempts = 1

SpecReads == ReadsInit /\ [][ReadsNext]_vars

\* The limiter with every operation of its interface.
AdminNext ==
    \/ ReadsNext
    \/ \E key \in Keys : ResetCall(key)
    \/ ResetAllCall

\* It is run with the configurations of one or two attempts in a window of
\* one or two milliseconds.
AdminInit == Init /\ config.maxAttempts <= 2 /\ config.windowMs <= 2

SpecAdmin == AdminInit /\ [][AdminNext]_vars

\* The limiter in a process that may be restarted.
RestartNext == Next \/ Restart

\* It is run with the configurations of one attempt per window.
RestartInit == Init /\ config.maxAttempts = 1

SpecRestart == RestartInit /\ [][RestartNext]_vars

\* Call sites racing for one key at one instant.
ConcurrentNext ==
    \E c \in Callers : CallerArrives(c, "export") \/ CallerRuns(c, "export")

SpecConcurrent == Init /\ [][ConcurrentNext]_vars

(***************************************************************************)
(* C1: for one key with a fixed config and no reset, a call made when      *)
(* maxAttempts accepted calls lie inside the window is rejected and sets   *)
(* the cooldown deadline to (time of the call) + cooldownMs; every call    *)
(* before that deadline is rejected; the first call at or after it is      *)
(* accepted as the only attempt of a fresh window, and calls are accepted  *)
(* again until maxAttempts of them lie inside the window.                  *)
(***************************************************************************)
C1_CooldownCycle ==
    rlLast.key # Null =>
        LET k == rlLast.key
        IN  /\ ((rlLast.phase = "open" /\ rlLast.seen >= config.maxAttempts)
                   => (~rlLast.ok /\ cooldowns[k] = rlLast.at + config.cooldownMs))
            /\ (rlLast.phase = "cooldown" => ~rlLast.ok)
            /\ (rlLast.phase = "expired"
                   => (rlLast.ok /\ attempts[k] = <<rlLast.at>>))
            /\ ((rlLast.phase = "open" /\ rlLast.seen < config.maxAttempts)
                   => rlLast.ok)

\* A key went through the whole cycle: rejected, cooled down, accepted again.
C1_Witness ==
    /\ rlLast.key # Null
    /\ rlLast.phase = "expired"
    /\ rlLast.ok
    /\ rlLast.at > 0

(***************************************************************************)
(* C3: no stored entry's details hold, anywhere in a value (inside a       *)
(* longer string, or inside a nested object or array), an unredacted       *)
(* 64-hex-character key or a 12- or 24-word phrase.                        *)
(***************************************************************************)
HoldsKey(s) == \E i \in 1..Len(s) : s[i] = "K"

HoldsPhrase(s) == SplitLength(s) >= 12

HoldsSecret(v) == v.t \in {"str", "obj", "arr"} /\ (HoldsKey(v.s) \/ HoldsPhrase(v.s))

C3_NoUnredactedSecret ==
    \A i \in 1..Len(logEntries) :
        LET d == logEntries[i].details
        IN  d.defined => \A k \in DOMAIN d.map : ~HoldsSecret(d.map[k])

(***************************************************************************)
(* C2: in every exportMnemonic / exportPrivateKey call the steps come in   *)
(* the order (1) rate-limiter check, (2) audit entry of the attempt,       *)
(* (3) biometric challenge when one is required, (4) vault read, (5) audit *)
(* entry of the outcome; the vault is read only after an accepted check,   *)
(* the attempt entry and, when required, an accepted challenge, and a call *)
(* that is about to return has an outcome entry as its last step.          *)
(***************************************************************************)
StepRank(step) ==
    CASE step \in {"rate:ok", "rate:rejected"} -> 1
      [] step \in {"MNEMONIC_EXPORT_ATTEMPT", "PRIVATE_KEY_EXPORT_ATTEMPT"} -> 2
      [] step \in {"bio:ok", "bio:declined"} -> 3
      [] step \in {"vault:read", "vault:fault"} -> 4
      [] step \in {"MNEMONIC_EXPORT_SUCCESS", "MNEMONIC_EXPORT_FAILED",
                   "PRIVATE_KEY_EXPORT_SUCCESS", "PRIVATE_KEY_EXPORT_FAILED",
                   "RATE_LIMIT_TRIGGERED"} -> 5
      [] OTHER -> 0

AttemptEntryOf(kind) ==
    IF kind = "mnemonic" THEN "MNEMONIC_EXPORT_ATTEMPT" ELSE "PRIVATE_KEY_EXPORT_ATTEMPT"

OutcomeEntriesOf(kind) ==
    IF kind = "mnemonic"
    THEN {"MNEMONIC_EXPORT_SUCCESS", "MNEMONIC_EXPORT_FAILED", "RATE_LIMIT_TRIGGERED"}
    ELSE {"PRIVATE_KEY_EXPORT_SUCCESS", "PRIVATE_KEY_EXPORT_FAILED",
          "RATE_LIMIT_TRIGGERED"}

Gains ==
    \/ \E m \in Mnemonics : CreateWallet(m, FALSE)
    \/ \E m \in Mnemonics : RecoverWallet(m, FALSE)
    \/ \E k \in PrivateKeys : ImportFromPrivateKey(k, FALSE)
    \/ LoadWallet(FALSE) /\ store[STORAGE_KEYS.PRIVATE_KEY] # 0
    \/ Initialize("expo", "true", FALSE) /\ store[STORAGE_KEYS.PRIVATE_KEY] # 0

PresenceStep ==
    /\ (~HasWallet(wallet) /\ HasWallet(wallet')) => (Gains /\ lastCall'.ok)
    /\ (HasWallet(wallet) /\ ~HasWallet(wallet')) => (DeleteWallet(FALSE) /\ lastCall'.ok)

Emptied(w, st, acct) == ~HasWallet(w) /\ st = EmptyStore /\ acct = 0

DeleteStep ==
    DeleteWallet(FALSE) =>
        /\ Emptied(wallet, store, account) =>
               (lastCall'.ok /\ hookError' = Null /\ Emptied(wallet', store', account'))
        /\ lastCall'.ok => Emptied(wallet', store', account')

C7_DeleteIdempotent == [][DeleteStep]_vars

\* deleteWallet succeeded although no wallet was ever stored or audited.
C7_Witness ==
    /\ lastCall.op = "deleteWallet"
    /\ lastCall.ok
    /\ logEntries = <<>>
    /\ Emptied(wallet, store, account)

(***************************************************************************)
(* C8: when the secure store does not reject the read, loadWallet on a     *)
(* store that holds no wallet material returns none, records no error,     *)
(* leaves the wallet state NoWallet and sets no account on the client.     *)
(***************************************************************************)
LoadStep ==
    (LoadWallet(FALSE) /\ store = EmptyStore)
        => /\ lastCall'.ok
           /\ lastCall'.ret = 0
           /\ hookError' = Null
           /\ ~HasWallet(wallet')
           /\ account' = 0

C8_LoadNothing == [][LoadStep]_vars

C8_Witness ==
    /\ lastCall.op = "loadWallet"
    /\ lastCall.ok
    /\ lastCall.ret = 0
    /\ store = EmptyStore

(***************************************************************************)
(* C9: createWallet called while a wallet is active fails with             *)
(* WALLET_ALREADY_EXISTS and leaves the persisted material, the wallet of  *)
(* the provider, the manager's account and the client's account unchanged. *)
(***************************************************************************)
CreateStep ==
    \A m \in Mnemonics, fault \in BOOLEAN :
        (CreateWallet(m, fault) /\ HasWallet(wallet))
            => /\ ~lastCall'.ok
               /\ lastCall'.err = "WALLET_ALREADY_EXISTS"
               /\ hookError' = "WALLET_ALREADY_EXISTS"
               /\ store' = store
               /\ wallet' = wallet
               /\ mgrAccount' = mgrAccount
               /\ account' = account

FailureEntries ==
    { "MNEMONIC_EXPORT_FAILED", "PRIVATE_KEY_EXPORT_FAILED", "BIOMETRIC_AUTH_FAILED",
      "RATE_LIMIT_TRIGGERED", "SECURITY_VIOLATION" }

Unsupported ==
    environment = "unsupported"
        => /\ ~walletManager
           /\ adapters = Null
           /\ ~isInitialized
           /\ providerError # Null
           /\ mgrAccount = 0
           /\ ~HasWallet(wallet)
           /\ account = 0

C11_UnsupportedFailsFast ==
    /\ []Unsupported
    /\ [][environment' = "unsupported" => store' = store]_vars

\* Detection resolved to 'unsupported' and the UI then tried to create a wallet.
C11_Witness ==
    /\ environment = "unsupported"
    /\ lastCall.op = "createWallet"
    /\ lastCall.err = NotReady

(***************************************************************************)
(* C12: a checkLimit(key, config) call at time now for a key that is not   *)
(* in an active cooldown, with R the recorded timestamps t of the key that *)
(* satisfy now - t < windowMs: if R has maxAttempts or more elements the   *)
(* call fails, the key's history is cleared and its deadline becomes       *)
(* now + cooldownMs; otherwise the call succeeds and the history becomes   *)
(* R followed by now.                                                      *)
(***************************************************************************)
OpenCheck ==
    \A key \in Keys :
        (CheckLimitCall(key) /\ ~(cooldowns[key] # 0 /\ now < cooldowns[key]))
            => LET R == SelectSeq(attempts[key], LAMBDA t : now - t < config.windowMs)
               IN  IF Len(R) >= config.maxAttempts
                   THEN /\ ~rlLast'.ok
                        /\ attempts'[key] = <<>>
                        /\ cooldowns'[key] = now + config.cooldownMs
                   ELSE /\ rlLast'.ok
                        /\ attempts'[key] = Append(R, now)

C12_OpenCheck == [][OpenCheck]_vars

\* An accepted call dropped an older timestamp and kept a newer one.
C12_Witness ==
    /\ rlLast.key # Null
    /\ rlLast.ok
    /\ cooldowns[rlLast.key] = 0
    /\ Len(attempts[rlLast.key]) = 2
    /\ attempts[rlLast.key][2] = rlLast.at
    /\ attempts[rlLast.key][1] < rlLast.at
    /\ Len(rlRef[rlLast.key].acc) = 2
    /\ rlLast.at >= 3

(***************************************************************************)
(* C13: a checkLimit call made while the key is in Cooldown                *)
(* (now < deadline) is rejected and changes neither the attempt histories  *)
(* nor the cooldown deadlines.                                             *)
(***************************************************************************)
CooldownCheck ==
    \A key \in Keys :
        (CheckLimitCall(key) /\ cooldowns[key] # 0 /\ now < cooldowns[key])
            => /\ ~rlLast'.ok
               /\ attempts' = attempts
               /\ cooldowns' = cooldowns

C13_CooldownRejectionFrame == [][CooldownCheck]_vars

\* A call was rejected inside a cooldown that an earlier call had started.
C13_Witness ==
    /\ rlLast.key # Null
    /\ ~rlLast.ok
    /\ rlLast.phase = "cooldown"
    /\ rlLast.at < cooldowns[rlLast.key]
    /\ rlLast.at > cooldowns[rlLast.key] - config.cooldownMs

(***************************************************************************)
(* C14: the error a rejected checkLimit call throws has the code           *)
(* RATE_LIMIT_EXCEEDED and carries the remaining cooldown seconds as a     *)
(* field of its own.                                                       *)
(***************************************************************************)
C14_TypedRejection ==
    (rlLast.key # Null /\ ~rlLast.ok)
        => /\ rlLast.error.code = "RATE_LIMIT_EXCEEDED"
           /\ "details" \in DOMAIN rlLast.error

(***************************************************************************)
(* C15: a getRemainingAttempts or getCooldownEnd call, in any state,       *)
(* leaves the attempt history and the cooldown deadline of every key       *)
(* unchanged.                                                              *)
(***************************************************************************)
ReadsArePure ==
    \A key \in Keys :
        (GetRemainingAttemptsCall(key) \/ GetCooldownEndCall(key))
            => (attempts' = attempts /\ cooldowns' = cooldowns)

C15_ReadOnly == [][ReadsArePure]_vars

(***************************************************************************)
(* C15 as amended: getRemainingAttempts leaves the attempt histories and   *)
(* deadlines unchanged; getCooldownEnd leaves the attempt histories and    *)
(* every deadline that has not passed unchanged, and changes nothing but   *)
(* the deadline of the key it is called with when that deadline has        *)
(* already passed, which it removes.                                       *)
(***************************************************************************)
ReadsKeepLiveState ==
    \A key \in Keys :
        /\ GetRemainingAttemptsCall(key)
               => (attempts' = attempts /\ cooldowns' = cooldowns)
        /\ GetCooldownEndCall(key)
               => /\ attempts' = attempts
                  /\ \A k \in Keys :
                         \/ cooldowns'[k] = cooldowns[k]
                         \/ /\ k = key
                            /\ cooldowns[k] # 0
                            /\ now >= cooldowns[k]
                            /\ cooldowns'[k] = 0

C15_ReadOnlyAmended == [][ReadsKeepLiveState]_vars

\* getCooldownEnd was called after the key's cooldown had expired.
C15_Witness ==
    /\ rlRead.fn = "getCooldownEnd"
    /\ rlRead.value = 0
    /\ rlRef[rlRead.key].deadline # 0
    /\ now >= rlRef[rlRead.key].deadline
    /\ cooldowns[rlRead.key] = 0

\* The last k elements of a sequence.
LastN(s, k) == SubSeq(s, Len(s) - k + 1, Len(s))

MinOf(a, b) == IF a < b THEN a ELSE b

(***************************************************************************)
(* C16: the audit log is a fixed-capacity FIFO.  Its size never exceeds    *)
(* the capacity (the configured one, 100 when none is set), and after n    *)
(* log calls it holds exactly the most recent min(n, capacity) entries in  *)
(* insertion order, the oldest being the one evicted by an insertion into  *)
(* a full log.  The entries handed to a configured custom handler are the  *)
(* record of what was logged.                                              *)
(***************************************************************************)
C16_BoundedFifo ==
    /\ Len(logEntries) <= Capacity(auditConfig)
    /\ Len(logEntries) = MinOf(logLast.n, Capacity(auditConfig))
    /\ auditConfig.customLogHandler # "none"
           => logEntries = LastN(sinkCalls, MinOf(Len(sinkCalls), Capacity(auditConfig)))

\* Three different entries went into a log of capacity 2.
C16_Witness ==
    /\ auditConfig.maxLogEntries = 2
    /\ Len(sinkCalls) = 3
    /\ sinkCalls[1] # sinkCalls[2] /\ sinkCalls[2] # sinkCalls[3]
    /\ sinkCalls[1] # sinkCalls[3]
    /\ logEntries = <<sinkCalls[2], sinkCalls[3]>>

(***************************************************************************)
(* C18: with a custom log handler configured, every log call invokes the   *)
(* handler exactly once, with the sanitized entry that is stored and never *)
(* with the details as passed in; when the handler throws, log still       *)
(* returns normally and the entry stays in the log.                        *)
(***************************************************************************)
C18_SinkIsolated ==
    (auditConfig.customLogHandler # "none" /\ logLast.n > 0)
        => /\ Len(sinkCalls) = logLast.n
           /\ sinkCalls[Len(sinkCalls)].details = SanitizeDetails(logLast.details)
           /\ logLast.outcome = "returned"
           /\ logEntries # <<>>
           /\ logEntries[Len(logEntries)] = sinkCalls[Len(sinkCalls)]

\* A throwing handler has been called twice, the second time for details
\* that sanitization had to change.
C18_Witness ==
    /\ auditConfig.customLogHandler = "throws"
    /\ logLast.n = 2
    /\ Len(sinkCalls) = 2
    /\ logLast.details.defined
    /\ SanitizeDetails(logLast.details) # logLast.details
    /\ logEntries[Len(logEntries)].details = SanitizeDetails(logLast.details)

(***************************************************************************)
(* C19: getRecentLogs(n), for every n >= 0 (10 when n is omitted), returns *)
(* at most n entries: exactly the min(n, size) most recently logged ones,  *)
(* oldest first.  (It leaves the log as it was.)                           *)
(***************************************************************************)
C19_RecentLogs ==
    recentLogs.called
        => /\ Len(recentLogs.value) <= recentLogs.count
           /\ recentLogs.value
                  = LastN(logEntries, MinOf(recentLogs.count, Len(logEntries)))

\* The sensitive terms, matched without regard to case.
SensitiveTerms ==
    { <<"private", "key">>, <<"mnemonic">>, <<"seed">>, <<"secret">>,
      <<"password">>, <<"key">> }

MatchesSensitiveTerm(key) ==
    \E term \in SensitiveTerms : Includes(ToLowerCase(key), term)

MatchesPattern(v) ==
    v.t = "str" /\ (LooksLikePrivateKey(v.s) \/ LooksLikeMnemonic(v.s))

(***************************************************************************)
(* C17: in the stored entry, every details key whose name matches a        *)
(* sensitive term carries the redaction marker, whatever the type of the   *)
(* value passed in and even when that value also matches the private-key   *)
(* or mnemonic pattern; an entry that matches no rule is stored as passed  *)
(* in; the stored details have exactly the keys of the details passed in.  *)
(***************************************************************************)
C17_SensitiveKeys ==
    logLast.n > 0
        => LET in == logLast.details
               out == logEntries[Len(logEntries)].details
           IN  /\ out.defined = in.defined
               /\ DOMAIN out.map = DOMAIN in.map
               /\ \A k \in DOMAIN in.map :
                      IF MatchesSensitiveTerm(k)
                      THEN out.map[k] = Str(<<"[REDACTED]">>)
                      ELSE ~MatchesPattern(in.map[k]) => out.map[k] = in.map[k]

\* A value that looks like a private key was logged under a sensitive key.
C17_Witness ==
    /\ logLast.n > 0
    /\ logLast.details.defined
    /\ \E k \in DOMAIN logLast.details.map :
           /\ MatchesSensitiveTerm(k)
           /\ MatchesPattern(logLast.details.map[k])
           /\ logEntries[Len(logEntries)].details.map[k] = Str(<<"[REDACTED]">>)

(***************************************************************************)
(* C20: every getItem call made with options.requireBiometric = true that  *)
(* reaches the OS store reaches it with requireAuthentication set, so the  *)
(* store is asked to demand authentication for that read; the adapter      *)
(* takes nothing else into account, in particular not whether a biometric  *)
(* prompt was shown before.                                                *)
(***************************************************************************)
C20_ReadDemandsAuth ==
    (/\ osCall.fn = "getItemAsync"
     /\ osCall.requested.given
     /\ osCall.requested.requireBiometric = "true")
        => osCall.storeOptions.requireAuthentication

\* A value stored earlier was read with requireBiometric = true.
C20_Witness ==
    /\ osCall.fn = "getItemAsync"
    /\ osCall.requested.requireBiometric = "true"
    /\ osCall.storeOptions.requireAuthentication
    /\ osCall.ok
    /\ osCall.value # 0
    /\ store[osCall.key] = osCall.value

(***************************************************************************)
(* C21: a missing or unprovisioned vault backend is fatal when the secure  *)
(* storage adapter is constructed: an adapter instance on which setItem,   *)
(* getItem or removeItem can be called exists only over a backend that is  *)
(* present and provisioned.                                                *)
(***************************************************************************)
C21_FatalAtConstruction ==
    secureStorage.constructed => secureStorage.backend = "present"

(***************************************************************************)
(* C23: every authenticate call presents exactly one OS challenge (none    *)
(* is repeated after a failed or cancelled one), and a call whose          *)
(* challenge is cancelled or does not succeed returns false and does not   *)
(* throw.                                                                  *)
(***************************************************************************)
C23_SingleChallenge ==
    /\ biometric.challenges
           = Cardinality({ i \in 1..biometric.calls : biometric.outcomes[i] # "no_module" })
    /\ \A i \in 1..biometric.calls :
           biometric.outcomes[i] \in {"user_cancel", "not_matched"}
               => biometric.returned[i] = "false"

\* A cancelled challenge was followed by a second call that succeeded.
C23_Witness ==
    /\ biometric.calls = 2
    /\ biometric.outcomes = <<"user_cancel", "success">>
    /\ biometric.returned = <<"false", "true">>
    /\ biometric.challenges = 2

(***************************************************************************)
(* C22: with autoConnect left unset, provider initialization does not load *)
(* a persisted wallet: when it completes the wallet state is null and no   *)
(* account is set on the client.  (A persisted wallet is loaded only for   *)
(* autoConnect = true.)                                                    *)
(***************************************************************************)
InitializeUnset ==
    \A env \in {"expo", "unsupported"}, fault \in BOOLEAN :
        Initialize(env, "undefined", fault) => (wallet' = 0 /\ account' = 0)

C22_AutoConnectDefault == [][InitializeUnset]_vars

Done == { c \in Callers : callers[c].pc = "done" }

Accepted == { c \in Done : callers[c].ok }

(***************************************************************************)
(* C24: callers that invoke checkLimit at the same instant on a key that   *)
(* is Open with an empty history are served one after the other: under     *)
(* every interleaving, of the N calls that have run exactly                *)
(* min(N, maxAttempts) were accepted, and until a rejection starts the     *)
(* cooldown (which clears the history) the history holds one timestamp     *)
(* per accepted call.                                                      *)
(***************************************************************************)
C24_AtomicCheck ==
    /\ Cardinality(Accepted) = MinOf(Cardinality(Done), config.maxAttempts)
    /\ Done = Accepted => Len(attempts["export"]) = Cardinality(Accepted)

\* All callers have run, and they were more than the configuration admits.
C24_Witness ==
    /\ Done = Callers
    /\ Cardinality(Accepted) = config.maxAttempts
    /\ config.maxAttempts > 1
    /\ config.maxAttempts < Cardinality(Callers)

(***************************************************************************)
(* C25: a process restart does not bypass an active cooldown: a checkLimit *)
(* call on a key made before the deadline D that a caller was given for    *)
(* that key fails, whether or not the process was restarted in between.    *)
(***************************************************************************)
C25_RestartKeepsCooldown ==
    \A key \in Keys :
        (rlLast.key = key /\ rlRef[key].deadline # 0 /\ rlLast.at < rlRef[key].deadline)
            => ~rlLast.ok

OtherKeysKept(key) ==
    \A k \in Keys \ {key} : attempts'[k] = attempts[k] /\ cooldowns'[k] = cooldowns[k]

KeyIsolation ==
    \A key \in Keys :
        (\/ CheckLimitCall(key)
         \/ ResetCall(key)
         \/ GetRemainingAttemptsCall(key)
         \/ GetCooldownEndCall(key)) => OtherKeysKept(key)

(***************************************************************************)
(* C26: rate-limit state is isolated per key: checkLimit, reset,           *)
(* getRemainingAttempts and getCooldownEnd called with key k leave the     *)
(* attempt history and the cooldown deadline of every other key as they    *)
(* were.                                                                   *)
(***************************************************************************)
C26_KeyIsolation == [][KeyIsolation]_vars

\* One key is cooling down while a call on another key was just accepted.
C26_Witness ==
    \E k1, k2 \in Keys :
        /\ k1 # k2
        /\ InCooldown(cooldowns, k1, now)
        /\ rlLast.key = k2 /\ rlLast.ok /\ rlLast.at = now
        /\ rlLast.at > 0
        /\ attempts[k2] # <<>>

IsOpenAndEmpty(att, cd, key) ==
    /\ GetRemainingAttempts(att, cd, key, config, now) = config.maxAttempts
    /\ GetCooldownEnd(cd, key, now).value = 0
    /\ CheckLimit(att, cd, key, config, now).ok

ResetOpens ==
    /\ \A key \in Keys : ResetCall(key) => IsOpenAndEmpty(attempts', cooldowns', key)
    /\ ResetAllCall => \A key \in Keys : IsOpenAndEmpty(attempts', cooldowns', key)

(***************************************************************************)
(* C27: reset(key) returns the key to Open with an empty history from any  *)
(* state: right after it getRemainingAttempts(key, config) is maxAttempts, *)
(* getCooldownEnd(key) is null and a checkLimit on the key succeeds;       *)
(* resetAll does this for every key.                                       *)
(***************************************************************************)
C27_ResetOpens == [][ResetOpens]_vars

\* A key was reset at the instant it had been rejected into its cooldown.
C27_Witness ==
    /\ rlRead.fn = "reset"
    /\ rlLast.key = rlRead.key
    /\ ~rlLast.ok
    /\ rlLast.at = now
    /\ cooldowns[rlRead.key] = 0
    /\ attempts[rlRead.key] = <<>>

(***************************************************************************)
(* C28: with a fixed config the number of attempt timestamps stored for a  *)
(* key never exceeds maxAttempts, whatever checkLimit, reset and query     *)
(* calls are made and whenever they are made.                              *)
(***************************************************************************)
C28_BoundedHistory ==
    \A key \in Keys : Len(attempts[key]) <= config.maxAttempts

\* A full history of attempts made at different times.
C28_Witness ==
    \E key \in Keys :
        /\ config.maxAttempts = 2
        /\ Len(attempts[key]) = 2
        /\ attempts[key][1] < attempts[key][2]

GateAgrees ==
    \A key \in Keys :
        CheckLimitCall(key)
            => (rlLast'.ok
                    <=> GetRemainingAttempts(attempts, cooldowns, key, config, now) > 0)

(***************************************************************************)
(* C30: the projection agrees with the gate: a checkLimit call succeeds if *)
(* and only if getRemainingAttempts, for the same key and config at the    *)
(* same instant and on the state just before the call, is greater than 0.  *)
(***************************************************************************)
C30_GateAgrees == [][GateAgrees]_vars

\* A call was rejected inside a cooldown, where the history is empty.
C30_Witness ==
    /\ rlLast.key # Null
    /\ ~rlLast.ok
    /\ rlLast.phase = "cooldown"
    /\ rlLast.at = now
    /\ attempts[rlLast.key] = <<>>
    /\ InCooldown(cooldowns, rlLast.key, now)

StrictlyIncreasing(ts) == \A i \in 1..(Len(ts) - 1) : ts[i] < ts[i + 1]

(***************************************************************************)
(* C29: with a fixed config and no reset, the accepted calls on a key at   *)
(* times a1 < a2 < ... satisfy a(i + maxAttempts) - a(i) >= windowMs for   *)
(* every i: never more than maxAttempts accepted calls in any span of      *)
(* windowMs, for every configuration, cooldownMs < windowMs included.      *)
(* rlRef[key].accepted holds the accepted calls less than windowMs before  *)
(* the latest accepted one, so the bound says that, accepted at strictly   *)
(* increasing times, they are at most maxAttempts.                         *)
(***************************************************************************)
C29_WindowBound ==
    \A key \in Keys :
        StrictlyIncreasing(rlRef[key].accepted)
            => Len(rlRef[key].accepted) <= config.maxAttempts

SecondsInRange ==
    (rlLast.key # Null /\ ~rlLast.ok)
        => /\ rlLast.seconds >= 1
           /\ rlLast.seconds <= CeilDiv(config.cooldownMs, 1000)
           /\ rlLast.phase = "cooldown"
                => rlLast.seconds = CeilDiv(cooldowns[rlLast.key] - rlLast.at, 1000)

\* Two successive rejections of one key under one deadline.
SecondsNonIncreasing ==
    \A key \in Keys :
        (/\ CheckLimitCall(key)
         /\ rlLast.key = key /\ ~rlLast.ok /\ ~rlLast'.ok
         /\ cooldowns'[key] = cooldowns[key])
            => rlLast'.seconds <= rlLast.seconds

(***************************************************************************)
(* C31: the remaining time a rejection during Cooldown reports is          *)
(* ceil((deadline - now) / 1000) seconds: at least 1, at most              *)
(* ceil(cooldownMs / 1000), and non-increasing across successive rejected  *)
(* calls as time advances.                                                 *)
(***************************************************************************)
C31_RemainingSeconds == [](SecondsInRange) /\ [][SecondsNonIncreasing]_vars

\* A rejection half a second before the deadline of a cooldown that lasts
\* more than two seconds: it reports one second.
C31_Witness ==
    /\ rlLast.key # Null /\ ~rlLast.ok
    /\ rlLast.phase = "cooldown"
    /\ config.cooldownMs = 2500
    /\ cooldowns[rlLast.key] - rlLast.at = HalfSecond
    /\ rlLast.seconds = 1

(***************************************************************************)
(* C32: the signing account on the client is the account of the current    *)
(* wallet state: in every state reached through provider initialization,   *)
(* setWallet and the wallet hook operations, a network-configuration       *)
(* change that replaces the client included, the client has an account if  *)
(* and only if the wallet state is non-null, and it is the current         *)
(* wallet's.                                                               *)
(***************************************************************************)
C32_AccountFollowsWallet ==
    /\ (account # 0) <=> (wallet # 0)
    /\ wallet # 0 => account = wallet

(***************************************************************************)
(* C33: in every reachable provider state isInitialized = true implies     *)
(* error = null, also when initialization times out and the slow           *)
(* initialization completes later, and when it re-runs after a dependency  *)
(* change.                                                                 *)
(***************************************************************************)
C33_InitializedWithoutError == isInitialized => providerError = Null

LoadingEnds == ~effect.loading /\ (isInitialized \/ providerError # Null)

(***************************************************************************)
(* C34: provider initialization always ends for the caller: while the      *)
(* provider stays mounted isLoading eventually becomes false, with         *)
(* isInitialized true or error set, even if environment detection, adapter *)
(* creation or the wallet load never completes, because the initTimeout    *)
(* timer then fires.                                                       *)
(***************************************************************************)
C34_InitializationEnds == (effect.pc # "unmounted") ~> LoadingEnds

\* The timer ended the wait of a run whose body never got past detection.
C34_Witness ==
    /\ effect.pc = "detect"
    /\ effect.timer = "fired"
    /\ ~effect.loading
    /\ providerError = TimedOutMessage
    /\ ~isInitialized

HookOperation ==
    \/ \E m \in Mnemonics, fault \in BOOLEAN : CreateWallet(m, fault)
    \/ \E m \in Mnemonics \cup {0}, fault \in BOOLEAN : RecoverWallet(m, fault)
    \/ \E k \in PrivateKeys \cup {0}, fault \in BOOLEAN : ImportFromPrivateKey(k, fault)
    \/ \E fault \in BOOLEAN : LoadWallet(fault)
    \/ \E fault \in BOOLEAN : DeleteWallet(fault)

FailureLeavesWallet ==
    (HookOperation /\ ~lastCall'.ok)
        => /\ lastCall'.err # Null
           /\ hookError' = lastCall'.err
           /\ wallet' = wallet
           /\ account' = account

C36_LoadingWhilePending == isLoading <=> pending # <<>>

(***************************************************************************)
(* C37: once all in-flight balance fetches have settled, the balance shown *)
(* by useBalance is the one fetched for the current target address, under  *)
(* every completion order, also when the address or wallet changed while   *)
(* an earlier fetch was in flight and that earlier fetch completes last.   *)
(* (A target whose own fetch failed shows the error instead.)              *)
(***************************************************************************)
C37_BalanceOfTarget ==
    (balance.fetches = <<>> /\ balance.target # 0 /\ balance.error = Null)
        => (balance.of = balance.target /\ balance.balance = EthBalance(balance.target))

(***************************************************************************)
(* C38: there is one audit log per process: at every point in time the     *)
(* exported securityAudit object and logSecurityEvent write to the         *)
(* instance that SecurityAuditLogger.getInstance() returns, so an entry    *)
(* logged through one is visible through the other, also after             *)
(* resetInstance and whatever config is passed to getInstance.             *)
(***************************************************************************)
C38_OneAuditLog ==
    \A cfg \in SingletonConfigs :
        LET sg == GetInstance(singleton, cfg)
        IN  /\ sg.instance = singleton.exported
            /\ sg.loggers[sg.instance].logEntries
                   = singleton.loggers[singleton.exported].logEntries

ClearsOwnText ==
    \A i \in 1..MaxTimers :
        (TimerResumes(i) /\ clipboard.content # 0 /\ clipboard'.content = 0)
            => clipboard.content = clipboard.timers[i].text

(***************************************************************************)
(* C39: content placed on the clipboard by a later copy or                 *)
(* copyWithAutoClear call is never cleared by the timer of an earlier      *)
(* copyWithAutoClear call, under every interleaving of the timer           *)
(* callback's clipboard read with later calls: a timer clears the          *)
(* clipboard only if, at the moment it clears, the clipboard still holds   *)
(* the text its own call copied.                                           *)
(***************************************************************************)
C39_TimerClearsOwnText == [][ClearsOwnText]_vars

====
